---- MODULE Spec2Model ----
(***************************************************************************)
(* Block-parallel raster engine of pypopRF: window planner, worker pool    *)
(* passes, zonal statistics, normalization and the raster writers.         *)
(* Rasters are functions from pixels <<x, y>> to integers; arithmetic is   *)
(* exact (integers, and rationals as <<numerator, denominator>> pairs).    *)
(***************************************************************************)
EXTENDS Integers, Sequences, FiniteSets, TLC

\* ---------------------------------------------------------------- bounds
\* extents and tile sizes of the window planner's specification
MaxExtent == 3
MaxTile == 3
\* extents, tile sizes, pool sizes, tasks per pass and pixel values of the passes
MaxWidth == 2
MaxHeight == 2
MaxBlock == 2
MaxWorkers == 2
MaxTasks == 4
MaxZone == 2
MaxVal == 2
MaxPop == 2
\* blockxsize / blockysize of the population raster's profile (256 in
\* _create_dasymetric_raster), scaled to the extents above
DasyBlock == 1

\* rows of an age-sex table
MaxRows == 2

VARIABLES
    \* inputs of a pass
    width,              \* src.width
    height,             \* src.height
    block_size,         \* settings.block_size, <<bw, bh>>
    max_workers,        \* settings.max_workers
    by_block,           \* settings.by_block
    kind,               \* which pass runs: "stat", "norm", "dasy" or "mask"
    mst,                \* the zone raster (mastergrid)
    tgt,                \* the target raster of the statistics: the prediction
    msk,                \* the mask raster of remask_layer
    mask_value,         \* the exclusion value of remask_layer
    census,             \* zone id -> population
    mask_path,          \* settings.mask: the mask file's path, [stem, ext]
    settings,           \* what map reads besides: constrain grid, age-sex table, state of the files
    \* state of the orchestrating call
    pc,                 \* its position
    i,                  \* its loop index
    windows,            \* the pass's window list
    workers,            \* the worker objects, in submission order
    completed_workers,  \* the worker class's progress counter
    results,            \* the list parallel_raster_processing returns
    total_valid_mappings,
    output_data,        \* the population writer's in-memory array
    dst,                \* the output file: pixel -> None (never written) or Some(value)
    ret,                \* what the call handed back
    \* history
    order,              \* worker indices in completion order
    collected,          \* worker indices whose result was consumed
    writes,             \* pixel -> number of writes to the output file
    modeOut,            \* results of the by-block and the whole-raster run
    normalized,         \* what _calculate_normalization handed back
    outfile,            \* the path remask_layer was told to write
    mapper,             \* DasymetricMapper.map: position, stages begun, files created
    proc,               \* ProcessWorker: position, stop flag, stages begun
    strata,             \* map_agesex: the factor table written per stratum column
    log,                \* the messages logged, in order
    predictor,          \* Model.predict: position, handles opened and closed, outcome
    infiles,            \* raster_stat_stack: the named input rasters, in order
    progress            \* the worker class of a pass: counter, lock, progress bar, tasks

inputs == <<width, height, block_size, max_workers, by_block, kind, mst, tgt, msk,
            mask_value, census, mask_path, settings>>

runstate == <<pc, i, windows, workers, completed_workers, results,
              total_valid_mappings, output_data, dst, ret, order, collected, writes>>

derived == <<modeOut, normalized, outfile, mapper, proc, strata, log, predictor,
            infiles, progress>>

vars == <<inputs, runstate, derived>>

\* ---------------------------------------------------------------- helpers
Min2(a, b) == IF a <= b THEN a ELSE b

Max2(a, b) == IF a >= b THEN a ELSE b

\* range(0, stop, step) as a sequence
RangeSeq(stop, step) == [k \in 1..((stop + step - 1) \div step) |-> (k - 1) * step]

RECURSIVE Flatten(_)
Flatten(ss) == IF ss = <<>> THEN <<>> ELSE Head(ss) \o Flatten(Tail(ss))

\* rasterio.windows.Window(col_off, row_off, width, height)
Window(x, y, w, h) == [col_off |-> x, row_off |-> y, width |-> w, height |-> h]

Pixels(w, h) == (0..(w - 1)) \X (0..(h - 1))

WindowPixels(win) ==
    (win.col_off..(win.col_off + win.width - 1))
        \X (win.row_off..(win.row_off + win.height - 1))

\* ---------------------------------------------------------------- window planner
\* a planner that pads the edge windows to the full tile (faulty variant)
get_windows_unclipped(w, h, bs) ==
    Flatten([r \in 1..Len(RangeSeq(h, bs[2])) |->
        [c \in 1..Len(RangeSeq(w, bs[1])) |->
            Window(RangeSeq(w, bs[1])[c], RangeSeq(h, bs[2])[r], bs[1], bs[2])]])

\* the two loops nested the other way round: column by column (faulty variant)
get_windows_columnMajor(w, h, bs) ==
    Flatten([c \in 1..Len(RangeSeq(w, bs[1])) |->
        [r \in 1..Len(RangeSeq(h, bs[2])) |->
            LET x == RangeSeq(w, bs[1])[c]
                y == RangeSeq(h, bs[2])[r]
            IN  Window(x, y, Min2(bs[1], w - x), Min2(bs[2], h - y))]])

\* row-major tiles from <<0, 0>>, the last of a row / column clipped to the extent
get_windows(w, h, bs) ==
    Flatten([r \in 1..Len(RangeSeq(h, bs[2])) |->
        [c \in 1..Len(RangeSeq(w, bs[1])) |->
            LET x == RangeSeq(w, bs[1])[c]
                y == RangeSeq(h, bs[2])[r]
            IN  Window(x, y, Min2(bs[1], w - x), Min2(bs[2], h - y))]])

\* ---------------------------------------------------------------- values
\* mst.nodata of the zone raster (the spec's scenario uses 0)
MstNodata == 0

\* tgt.nodata / pred.nodata of the target (prediction) raster
TgtNodata == -1

\* profile["nodata"] of the normalization and population rasters
OutNodata == -99

\* default min_count of aggregate_table
min_count == 1

\* an unset worker result (None) and a set one
None == <<>>

Some(v) == <<v>>

RECURSIVE Gcd(_, _)
Gcd(a, b) == IF b = 0 THEN a ELSE Gcd(b, a % b)

Abs(a) == IF a < 0 THEN -a ELSE a

\* a float as an exact rational in lowest terms, denominator > 0
Rat(n, d) ==
    LET g == Gcd(Abs(n), Abs(d))
        s == IF d < 0 THEN -1 ELSE 1
    IN  <<(s * n) \div g, (s * d) \div g>>

RMul(a, b) == Rat(a[1] * b[1], a[2] * b[2])

RAdd(a, b) == Rat(a[1] * b[2] + b[1] * a[2], a[2] * b[2])

RSub(a, b) == Rat(a[1] * b[2] - b[1] * a[2], a[2] * b[2])

RLess(a, b) == a[1] * b[2] < b[1] * a[2]

RECURSIVE SumSet(_, _)
SumSet(D, f) ==
    IF D = {} THEN 0
    ELSE LET p == CHOOSE q \in D : TRUE IN f[p] + SumSet(D \ {p}, f)

RECURSIVE SortedSeq(_)
SortedSeq(S) ==
    IF S = {} THEN <<>>
    ELSE LET m == CHOOSE a \in S : \A b \in S : a <= b
         IN  <<m>> \o SortedSeq(S \ {m})

SeqMin(S) == CHOOSE a \in S : \A b \in S : a <= b

SeqMax(S) == CHOOSE a \in S : \A b \in S : a >= b

\* src.read(window=...): the window's sub-array, indexed from <<0, 0>>
Read(raster, win) ==
    [p \in Pixels(win.width, win.height) |->
        raster[<<win.col_off + p[1], win.row_off + p[2]>>]]

WholeWindow(w, h) == Window(0, 0, w, h)

\* ---------------------------------------------------------------- zonal statistics
\* one row of a partial table, for zone zid
StatRow(t, m, nodata, zid) ==
    LET select == {p \in DOMAIN m : t[p] # nodata /\ m[p] = zid}
    IN  [id |-> zid,
         count |-> Cardinality(select),
         sum |-> SumSet(select, t),
         sum2 |-> SumSet(select, [p \in DOMAIN t |-> t[p] * t[p]]),
         min |-> IF select = {} THEN 0 ELSE SeqMin({t[p] : p \in select}),
         max |-> IF select = {} THEN 0 ELSE SeqMax({t[p] : p \in select})]

\* a table that keeps the row of the zone-nodata sentinel (faulty variant)
get_raster_stats_keepSkip(t, m, nodata, skip) ==
    LET ids == SortedSeq({m[p] : p \in DOMAIN m})
        rows == [k \in 1..Len(ids) |-> StatRow(t, m, nodata, ids[k])]
        keep(r) == ~(r.count < 1)
    IN  SelectSeq(rows, keep)

get_raster_stats(t, m, nodata, skip) ==
    LET ids == SortedSeq({m[p] : p \in DOMAIN m})
        rows == [k \in 1..Len(ids) |-> StatRow(t, m, nodata, ids[k])]
        keep(r) == r.id # skip /\ ~(r.count < 1)
    IN  SelectSeq(rows, keep)

\* pd.concat(list of tables, ignore_index=True)
concat(dfs) == Flatten(dfs)

GroupRows(df, zid) == {k \in 1..Len(df) : df[k].id = zid}

\* a merge that keeps the min / max of the group's last partial row (faulty
\* variant)
AggRow_minOfLast(df, zid) ==
    LET g == GroupRows(df, zid)
        cnt == SumSet(g, [k \in 1..Len(df) |-> df[k].count])
        sm == SumSet(g, [k \in 1..Len(df) |-> df[k].sum])
        sm2 == SumSet(g, [k \in 1..Len(df) |-> df[k].sum2])
        last == SeqMax(g)
    IN  [id |-> zid, count |-> cnt, sum |-> sm,
         min |-> df[last].min,
         max |-> df[last].max,
         avg |-> IF cnt > 0 THEN Rat(sm, cnt) ELSE Rat(0, 1),
         var |-> IF cnt > 0
                 THEN Rat(Max2(sm2 * cnt - sm * sm, 0), cnt * cnt)
                 ELSE Rat(0, 1)]

\* the groupby("id") sum / min / max of aggregate_table and its derived columns
AggRow(df, zid) ==
    LET g == GroupRows(df, zid)
        cnt == SumSet(g, [k \in 1..Len(df) |-> df[k].count])
        sm == SumSet(g, [k \in 1..Len(df) |-> df[k].sum])
        sm2 == SumSet(g, [k \in 1..Len(df) |-> df[k].sum2])
    IN  [id |-> zid, count |-> cnt, sum |-> sm,
         min |-> SeqMin({df[k].min : k \in g}),
         max |-> SeqMax({df[k].max : k \in g}),
         avg |-> IF cnt > 0 THEN Rat(sm, cnt) ELSE Rat(0, 1),
         var |-> IF cnt > 0
                 THEN Rat(Max2(sm2 * cnt - sm * sm, 0), cnt * cnt)
                 ELSE Rat(0, 1)]

\* a DataFrame: its rows, and whether it has columns at all (pd.DataFrame()
\* has none)
Frame(cols, rows) == [columns |-> cols, rows |-> rows]

aggregate_table(df, mc) ==
    IF df = <<>> THEN Frame(FALSE, <<>>)
    ELSE LET ids == SortedSeq({df[k].id : k \in 1..Len(df)})
             out == [k \in 1..Len(ids) |-> AggRow(df, ids[k])]
             keep(r) == r.count > mc
         IN  Frame(TRUE, SelectSeq(out, keep))

\* what a call hands back: a value, or a raised exception
Returned(v) == [status |-> "returned", value |-> v]

Raised(e) == [status |-> "raised", value |-> e]

\* RasterWorker.run's body for one window (the part inside try)
RasterWorkerResult(m, t, win) ==
    get_raster_stats(Read(t, win), Read(m, win), TgtNodata, MstNodata)

\* a merge that applies the count threshold to each partial table before the
\* concat (faulty variant)
StatMerge_perWindow(rs) ==
    IF rs = <<>> THEN Raised("ValueError: No objects to concatenate")
    ELSE LET keep(r) == r.count > min_count
             kept == [k \in 1..Len(rs) |-> SelectSeq(rs[k], keep)]
         IN  Returned(aggregate_table(concat(kept), min_count))

\* pd.concat of the collected results, then aggregate_table
StatMerge(rs) ==
    IF rs = <<>> THEN Raised("ValueError: No objects to concatenate")
    ELSE Returned(aggregate_table(concat(rs), min_count))

\* raster_stat with every window task succeeding
raster_stat(m, t, w, h, byblock, bs) ==
    IF byblock
    THEN LET wins == get_windows(w, h, bs)
         IN  StatMerge([k \in 1..Len(wins) |-> RasterWorkerResult(m, t, wins[k])])
    ELSE Returned(aggregate_table(
             get_raster_stats(Read(t, WholeWindow(w, h)), Read(m, WholeWindow(w, h)),
                              TgtNodata, MstNodata), min_count))

\* ---------------------------------------------------------------- normalization
NaN == <<>>

Num(v) == <<v>>

CensusSum(cen) == SumSet(DOMAIN cen, cen)

StatIds(sum_prob) == {sum_prob.rows[k].id : k \in 1..Len(sum_prob.rows)}

StatSum(sum_prob, z) ==
    LET k == CHOOSE j \in 1..Len(sum_prob.rows) : sum_prob.rows[j].id = z
    IN  sum_prob.rows[k].sum

\* the quotient taken the wrong way round, sum / population (faulty variant)
NormOf_inverted(pop, sm) ==
    IF sm # NaN /\ sm[1] > 0
    THEN (IF pop = NaN \/ pop[1] = 0 THEN NaN ELSE Num(Rat(sm[1], pop[1])))
    ELSE NaN

\* a factor for every non-zero sum, negative sums included (faulty variant)
NormOf_anySum(pop, sm) ==
    IF sm # NaN /\ sm[1] # 0
    THEN (IF pop = NaN THEN NaN ELSE Num(Rat(pop[1], sm[1])))
    ELSE NaN

\* the factor column: population / sum where sum > 0, NaN elsewhere
NormOf(pop, sm) ==
    IF sm # NaN /\ sm[1] > 0
    THEN (IF pop = NaN THEN NaN ELSE Num(Rat(pop[1], sm[1])))
    ELSE NaN

\* pd.merge(census, sum_prob[["id", "sum"]], how="outer") with the norm column
MergedTable(cen, sum_prob) ==
    LET ids == SortedSeq(DOMAIN cen \cup StatIds(sum_prob))
    IN  [k \in 1..Len(ids) |->
            LET z == ids[k]
                pop == IF z \in DOMAIN cen THEN Num(cen[z]) ELSE NaN
                sm == IF z \in StatIds(sum_prob) THEN Num(StatSum(sum_prob, z)) ELSE NaN
            IN  [id |-> z, pop |-> pop, sum |-> sm, norm |-> NormOf(pop, sm)]]

RECURSIVE RSumSeq(_)
RSumSeq(rs) == IF rs = <<>> THEN Rat(0, 1) ELSE RAdd(Head(rs), RSumSeq(Tail(rs)))

\* (merged["sum"] * merged["norm"]).sum(), which skips NaN products
TotalPopCheck(merged) ==
    LET defined(r) == r.sum # NaN /\ r.norm # NaN
        rows == SelectSeq(merged, defined)
    IN  RSumSeq([k \in 1..Len(rows) |-> RMul(Rat(rows[k].sum[1], 1), rows[k].norm[1])])

\* the conservation warning: |recomputed - census total| / census total > 1%
DriftWarning(check, pre) ==
    LET diff == RSub(check, Rat(pre, 1))
        absdiff == Rat(Abs(diff[1]), diff[2])
    IN  RLess(Rat(pre, 100), absdiff)

\* _calculate_normalization after raster_stat returned sum_prob; a frame
\* without columns has no "id" and "sum" to select
calculate_normalization(cen, sum_prob) ==
    IF ~sum_prob.columns THEN Raised("KeyError")
    ELSE LET merged == MergedTable(cen, sum_prob)
         IN  Returned([merged |-> merged,
                       pre_merge_pop |-> CensusSum(cen),
                       total_pop_check |-> TotalPopCheck(merged),
                       warning |-> DriftWarning(TotalPopCheck(merged), CensusSum(cen))])

\* the zone -> factor dict built from the rows whose norm is not NaN
NormMapping(merged) ==
    LET ks == {k \in 1..Len(merged) : merged[k].norm # NaN}
    IN  [z \in {merged[k].id : k \in ks} |->
            merged[CHOOSE k \in ks : merged[k].id = z].norm[1]]

\* ---------------------------------------------------------------- window tasks
FNodata == Rat(OutNodata, 1)

\* an output that starts from zeros instead of nodata (faulty variant)
NormalizationWorkerResult_zeroFill(m, mapping, win) ==
    LET mst_data == Read(m, win)
        mapped(p) == mst_data[p] # MstNodata /\ mst_data[p] \in DOMAIN mapping
    IN  [output |-> [p \in DOMAIN mst_data |->
                        IF mapped(p) THEN mapping[mst_data[p]] ELSE Rat(0, 1)],
         valid_mappings |-> Cardinality({p \in DOMAIN mst_data : mapped(p)})]

\* NormalizationWorker.run's body: the output array and valid_mappings
NormalizationWorkerResult(m, mapping, win) ==
    LET mst_data == Read(m, win)
        mapped(p) == mst_data[p] # MstNodata /\ mst_data[p] \in DOMAIN mapping
    IN  [output |-> [p \in DOMAIN mst_data |->
                        IF mapped(p) THEN mapping[mst_data[p]] ELSE FNodata],
         valid_mappings |-> Cardinality({p \in DOMAIN mst_data : mapped(p)})]

\* DasymetricWorker.run's body: prediction * factor, nodata where either is invalid
DasymetricWorkerResult(pred, norm, win) ==
    LET pred_data == Read(pred, win)
        norm_data == Read(norm, win)
        invalid(p) == pred_data[p] = TgtNodata \/ norm_data[p] = FNodata
    IN  [p \in DOMAIN pred_data |->
            IF invalid(p) THEN FNodata
            ELSE RMul(Rat(pred_data[p], 1), norm_data[p])]

\* MaskWorker.run's body: zone pixels set to nodata where the mask has mask_value
MaskWorkerResult(m, n, mv, win) ==
    LET md == Read(m, win)
        nd == Read(n, win)
    IN  [p \in DOMAIN md |-> IF nd[p] = mv THEN MstNodata ELSE md[p]]


\* ---------------------------------------------------------------- paths
\* a file path as its stem (a sequence of name parts) and its extension
Path(stem, ext) == [stem |-> stem, ext |-> ext]

\* mask files the settings accept: any existing file, whatever its extension
MaskPaths == <<Path(<<"mask">>, ".tif"), Path(<<"mask">>, ".TIF")>>

\* path.replace(".tif", suffix + ".tif"): case-sensitive, and the path itself
\* when ".tif" does not occur in it
ReplaceTif(path, suffix) ==
    IF path.ext = ".tif" THEN Path(Append(path.stem, suffix), ".tif") ELSE path

\* ---------------------------------------------------------------- passes
Kinds == {"stat", "norm", "dasy", "mask"}


\* dst.block_windows(): the windows of the dataset's blocks, row-major
block_windows(w, h, bs) == get_windows(w, h, bs)

Full(w, h, v) == [p \in Pixels(w, h) |-> v]

Rel(p, win) == <<p[1] - win.col_off, p[2] - win.row_off>>

Covers(p, arr, win) == p \in WindowPixels(win) /\ Rel(p, win) \in DOMAIN arr

\* dst.write(arr, window=win)
Write(d, arr, win) ==
    [p \in DOMAIN d |-> IF Covers(p, arr, win) THEN Some(arr[Rel(p, win)]) ELSE d[p]]

CountWrite(wr, arr, win) ==
    [p \in DOMAIN wr |-> IF Covers(p, arr, win) THEN wr[p] + 1 ELSE wr[p]]

\* output_data[row_off : row_off + height, col_off : col_off + width] = arr
Assign(a, arr, win) ==
    [p \in DOMAIN a |-> IF Covers(p, arr, win) THEN arr[Rel(p, win)] ELSE a[p]]

\* the statistics, the factor table and the factor raster the earlier stages
\* hand to the writers
SumProb(m, t, w, h) == raster_stat(m, t, w, h, FALSE, <<w, h>>).value

norm_mapping(c, m, t, w, h) ==
    NormMapping(calculate_normalization(c, SumProb(m, t, w, h)).value.merged)

norm_raster(c, m, t, w, h) ==
    NormalizationWorkerResult(m, norm_mapping(c, m, t, w, h), WholeWindow(w, h)).output

PassWindows ==
    CASE kind = "stat" -> get_windows(width, height, block_size)
      [] kind = "norm" -> block_windows(width, height, block_size)
      [] kind = "dasy" -> block_windows(width, height, <<DasyBlock, DasyBlock>>)
      [] kind = "mask" -> get_windows(width, height, block_size)

\* what run() leaves in the worker when its body does not raise
TaskBody(win) ==
    CASE kind = "stat" ->
            [result |-> Some(RasterWorkerResult(mst, tgt, win)), valid_mappings |-> 0]
      [] kind = "norm" ->
            LET r == NormalizationWorkerResult(
                         mst, norm_mapping(census, mst, tgt, width, height), win)
            IN  [result |-> Some(r.output), valid_mappings |-> r.valid_mappings]
      [] kind = "dasy" ->
            [result |-> Some(DasymetricWorkerResult(
                                 tgt, norm_raster(census, mst, tgt, width, height), win)),
             valid_mappings |-> 0]
      [] kind = "mask" ->
            [result |-> Some(MaskWorkerResult(mst, msk, mask_value, win)),
             valid_mappings |-> 0]

\* an object the try body of run() reads or writes: whether other tasks of
\* the pass use the same object, and the lock held while it is used
Access(object, shared, guard) == [object |-> object, shared |-> shared, guard |-> guard]

\* the objects the try body of run() uses before the progress counter:
\* RasterWorker, NormalizationWorker and DasymetricWorker open the input files
\* themselves; MaskWorker reads the two datasets remask_layer opened, under
\* reading_lock; DasymetricWorker adds the window's valid values to the
\* class-level final_stats under lock
TaskAccesses(win) ==
    {Access("self.result", FALSE, "none")}
    \cup CASE kind = "stat" ->
               {Access("mastergrid handle", FALSE, "none"),
                Access("target handle", FALSE, "none")}
           [] kind = "norm" ->
               {Access("mastergrid handle", FALSE, "none"),
                Access("self.valid_mappings", FALSE, "none")}
           [] kind = "dasy" ->
               {Access("prediction handle", FALSE, "none"),
                Access("normalization handle", FALSE, "none")}
               \cup (IF \E p \in DOMAIN TaskBody(win).result[1] :
                           TaskBody(win).result[1][p] # FNodata
                     THEN {Access("final_stats", TRUE, "lock")} ELSE {})
           [] kind = "mask" ->
               {Access("self.mst", TRUE, "reading_lock"),
                Access("self.msk", TRUE, "reading_lock")}

\* a worker object after __init__ and executor.start
NewWorker ==
    [st |-> "queued", result |-> None, valid_mappings |-> 0, runs |-> 0, raised |-> FALSE,
     touched |-> {}]

StIn(ws, S) == {k \in 1..Len(ws) : ws[k].st \in S}

\* a failure that also cancels the runnables still queued (faulty variant)
AfterRaise_abortQueued(ws, k) ==
    [j \in 1..Len(ws) |->
        IF j = k THEN [ws[j] EXCEPT !.st = "finished", !.raised = TRUE, !.runs = @ + 1]
        ELSE IF ws[j].st = "queued" THEN [ws[j] EXCEPT !.st = "finished"]
        ELSE ws[j]]

\* the except clause of run(): the error is logged, the result stays None,
\* the other workers are untouched
AfterRaise(ws, k) ==
    [ws EXCEPT ![k] = [@ EXCEPT !.st = "finished", !.raised = TRUE, !.runs = @ + 1]]

\* a wait that returns while runnables are queued or still counting (faulty
\* variant)
PoolIdle_noneRunning(ws) == StIn(ws, {"running"}) = {}

\* executor.waitForDone(): no runnable is queued or active
PoolIdle(ws) == StIn(ws, {"queued", "running", "counting"}) = {}

\* collection in completion order (faulty variant)
CollectSlot_byCompletion(k) == order[k]

\* for i, worker in enumerate(workers): the worker read at position k
CollectSlot(k) == k

\* every result written to the first window (faulty variant)
TargetWindow_first(k) == windows[1]

\* dst.write(worker.result, window=windows[i]): the window the result goes to
TargetWindow(k) == windows[k]

\* the summary line of the by-block normalization writer
NormSummary(total, mapping) ==
    IF Cardinality(DOMAIN mapping) = 0
    THEN Raised("ZeroDivisionError")
    ELSE Returned("normalized_census.tif")

\* ---------------------------------------------------------------- log messages
\* logger.error(f"Error in worker {self.idx}: ...") in the except clause of run()
ErrorMessage(k) == [level |-> "error", text |-> "Error in worker", idx |-> k]

\* logger.warning(f"No result from worker {i}") of Model._write_results
WarningMessage(k) == [level |-> "warning", text |-> "No result from worker", idx |-> k]

\* ProgressBar.finish(): "Completed: |...| 100% (total/total)"
CompletedMessage == [level |-> "info", text |-> "Completed: 100%", idx |-> 0]

\* ---------------------------------------------------------------- the by-block pass
\* get the windows, init_progress, and (population writer) prefill output_data
Begin ==
    /\ pc = "start"
    /\ by_block
    /\ windows' = PassWindows
    /\ completed_workers' = 0
    /\ output_data' = IF kind = "dasy" THEN Full(width, height, FNodata) ELSE output_data
    /\ i' = 1
    /\ pc' = "submit"
    /\ UNCHANGED <<inputs, workers, results, total_valid_mappings, dst, ret, order,
                   collected, writes, derived>>

\* one turn of the submit loop: create the worker, append it, executor.start
Submit ==
    /\ pc = "submit"
    /\ i <= Len(windows)
    /\ workers' = Append(workers, NewWorker)
    /\ i' = i + 1
    /\ pc' = IF i = Len(windows) THEN "wait" ELSE "submit"
    /\ UNCHANGED <<inputs, windows, completed_workers, results, total_valid_mappings,
                   output_data, dst, ret, order, collected, writes, derived>>

\* the pool takes the oldest queued runnable when a thread is free
TaskStart(k) ==
    /\ k \in StIn(workers, {"queued"})
    /\ \A j \in StIn(workers, {"queued"}) : k <= j
    /\ Cardinality(StIn(workers, {"running", "counting"})) < max_workers
    /\ workers' = [workers EXCEPT ![k].st = "running"]
    /\ UNCHANGED <<inputs, pc, i, windows, completed_workers, results,
                   total_valid_mappings, output_data, dst, ret, order, collected,
                   writes, derived>>

\* the try body of run(): read, compute, set self.result; or raise and be caught
TaskRun(k) ==
    /\ k \in StIn(workers, {"running"})
    /\ \E fail \in BOOLEAN :
          /\ IF fail
             THEN /\ workers' = AfterRaise(workers, k)
                  /\ order' = Append(order, k)
             ELSE /\ workers' = [workers EXCEPT ![k] =
                         [@ EXCEPT !.st = "counting",
                                   !.result = TaskBody(windows[k]).result,
                                   !.valid_mappings = TaskBody(windows[k]).valid_mappings,
                                   !.touched = TaskAccesses(windows[k]),
                                   !.runs = @ + 1]]
                  /\ order' = order
          /\ log' = IF fail THEN Append(log, ErrorMessage(k)) ELSE log
    /\ UNCHANGED <<inputs, pc, i, windows, completed_workers, results,
                   total_valid_mappings, output_data, dst, ret, collected, writes,
                   modeOut, normalized, outfile, mapper, proc, strata, predictor,
                   infiles, progress>>

\* with self.lock: completed_workers += 1, progress_bar.update; run() returns
TaskCount(k) ==
    /\ k \in StIn(workers, {"counting"})
    /\ completed_workers' = completed_workers + 1
    /\ workers' = [workers EXCEPT ![k].st = "finished"]
    /\ order' = Append(order, k)
    /\ UNCHANGED <<inputs, pc, i, windows, results, total_valid_mappings, output_data,
                   dst, ret, collected, writes, derived>>

\* executor.waitForDone() returns; parallel_raster_processing then calls
\* progress_bar.finish(), the writers do not
WaitForDone ==
    /\ pc = "wait"
    /\ PoolIdle(workers)
    /\ pc' = "collect"
    /\ i' = 1
    /\ log' = IF kind = "stat" THEN Append(log, CompletedMessage) ELSE log
    /\ UNCHANGED <<inputs, windows, workers, completed_workers, results,
                   total_valid_mappings, output_data, dst, ret, order, collected,
                   writes, modeOut, normalized, outfile, mapper, proc, strata,
                   predictor, infiles, progress>>

\* one turn of the collection loop over enumerate(workers)
Collect ==
    /\ pc = "collect"
    /\ i <= Len(workers)
    /\ LET w == workers[CollectSlot(i)]
           win == TargetWindow(i)
           has == w.result # None
           toFile == has /\ kind \in {"norm", "mask"}
       IN  /\ results' = IF has /\ kind = "stat"
                         THEN Append(results, w.result[1]) ELSE results
           /\ dst' = IF toFile THEN Write(dst, w.result[1], win) ELSE dst
           /\ writes' = IF toFile THEN CountWrite(writes, w.result[1], win) ELSE writes
           /\ total_valid_mappings' =
                  IF has /\ kind = "norm"
                  THEN total_valid_mappings + w.valid_mappings
                  ELSE total_valid_mappings
           /\ output_data' = IF has /\ kind = "dasy"
                             THEN Assign(output_data, w.result[1], win)
                             ELSE output_data
           /\ collected' = IF has THEN collected \cup {CollectSlot(i)} ELSE collected
    /\ i' = i + 1
    /\ pc' = IF i = Len(workers) THEN "finish" ELSE "collect"
    /\ UNCHANGED <<inputs, windows, workers, completed_workers, ret, order, derived>>

\* after the loop: merge (statistics), summary (normalization), the single
\* dst.write(output_data) (population), dst.close (mask); the call returns
Finish ==
    /\ pc = "finish"
    /\ ret' = CASE kind = "stat" -> StatMerge(results)
                [] kind = "norm" ->
                      NormSummary(total_valid_mappings,
                                  norm_mapping(census, mst, tgt, width, height))
                [] kind = "dasy" -> Returned("population.tif")
                [] kind = "mask" -> Returned("remasked_layer.tif")
    /\ dst' = IF kind = "dasy" THEN [p \in DOMAIN dst |-> Some(output_data[p])] ELSE dst
    /\ writes' = IF kind = "dasy" THEN [p \in DOMAIN writes |-> writes[p] + 1] ELSE writes
    /\ pc' = "done"
    /\ UNCHANGED <<inputs, i, windows, workers, completed_workers, results,
                   total_valid_mappings, output_data, order, collected, derived>>

\* ---------------------------------------------------------------- the whole-raster pass
\* by_block disabled: one window spanning the raster, run in the calling thread
RunWhole ==
    /\ pc = "start"
    /\ ~by_block
    /\ LET win == WholeWindow(width, height)
       IN  \E fail \in BOOLEAN :
             /\ fail => kind \in {"norm", "dasy"}
             /\ ret' = IF kind = "stat"
                       THEN raster_stat(mst, tgt, width, height, FALSE, block_size)
                       ELSE Returned("path")
             /\ workers' =
                    IF kind \in {"norm", "dasy"}
                    THEN <<[st |-> "finished",
                            result |-> IF fail THEN None ELSE TaskBody(win).result,
                            valid_mappings |->
                                IF fail THEN 0 ELSE TaskBody(win).valid_mappings,
                            runs |-> 1,
                            raised |-> fail,
                            touched |-> IF fail THEN {} ELSE TaskAccesses(win)]>>
                    ELSE workers
             /\ dst' = IF kind = "stat" \/ fail THEN dst
                       ELSE [p \in DOMAIN dst |-> Some(TaskBody(win).result[1][p])]
             /\ writes' = IF kind = "stat" \/ fail THEN writes
                          ELSE [p \in DOMAIN writes |-> writes[p] + 1]
             /\ windows' = <<win>>
             /\ log' = IF fail THEN Append(log, ErrorMessage(1)) ELSE log
             /\ completed_workers' = IF kind \in {"norm", "dasy"} /\ ~fail
                                     THEN completed_workers + 1
                                     ELSE completed_workers
    /\ pc' = "done"
    /\ UNCHANGED <<inputs, i, results, total_valid_mappings,
                   output_data, order, collected, modeOut, normalized, outfile,
                   mapper, proc, strata, predictor, infiles, progress>>

\* ---------------------------------------------------------------- settings, mapper, worker thread
\* no fault on any input file
NoFault == [kind |-> "none", on |-> "none"]

\* settings without a constrain grid, every input file present and compatible
PlainSettings == [constrain |-> None, agesex_data |-> None, fault |-> NoFault]

\* a worker class as defined: completed_workers = 0, progress_bar = None, the
\* lock free, no pass begun
IdleProgress ==
    [pc |-> "created", passes |-> 0, completed_workers |-> 0, bar |-> None, lock |-> 0,
     tasks |-> <<>>, emitted |-> <<>>, reading_lock |-> 0, reads |-> <<>>]

\* Model before predict is called
IdlePredictor ==
    [pc |-> "idle", trained |-> TRUE, covariate |-> 0, open_fails |-> {},
     close_fails |-> {}, out_fails |-> FALSE, src |-> <<>>, mst |-> FALSE,
     closed |-> <<>>, released |-> {}, pass |-> [status |-> "none", value |-> <<>>],
     ret |-> [status |-> "none", value |-> <<>>]]

\* DasymetricMapper before map is called
IdleMapper ==
    [pc |-> "idle", constrained |-> FALSE, trace |-> <<>>, created |-> {},
     sum_prob |-> <<>>, normalized |-> <<>>,
     ret |-> [status |-> "none", value |-> <<>>]]

\* ProcessWorker after __init__: _is_running is True, run() not entered
IdleProc ==
    [pc |-> "created", k |-> 0, is_running |-> TRUE, use_existing_model |-> FALSE,
     begun |-> <<>>, finished |-> "none", emits |-> <<>>, checks |-> <<>>,
     cleaned |-> <<>>]

\* ---------------------------------------------------------------- Spec: one pass
InitRun ==
    /\ pc = "start"
    /\ i = 0
    /\ windows = <<>>
    /\ workers = <<>>
    /\ completed_workers = 0
    /\ results = <<>>
    /\ total_valid_mappings = 0
    /\ output_data = <<>>
    /\ dst = Full(width, height, None)
    /\ ret = [status |-> "none", value |-> <<>>]
    /\ order = <<>>
    /\ collected = {}
    /\ writes = Full(width, height, 0)
    /\ modeOut = <<>>
    /\ normalized = <<>>
    /\ outfile = <<>>
    /\ mapper = IdleMapper
    /\ proc = IdleProc
    /\ strata = <<>>
    /\ log = <<>>
    /\ progress = IdleProgress
    /\ predictor = IdlePredictor
    /\ infiles = <<>>

\* the rasters of the pass specification: two zones and a nodata pixel, a
\* prediction with a different value on every pixel, a checkerboard mask
SceneMst(w, h) ==
    [p \in Pixels(w, h) |-> IF p[1] = 0 THEN 1 ELSE IF p[2] = 0 THEN 2 ELSE MstNodata]

SceneTgt(w, h) == [p \in Pixels(w, h) |-> 1 + p[1] + 2 * p[2]]

SceneMsk(w, h) == [p \in Pixels(w, h) |-> (p[1] + p[2]) % 2]

\* census tables of the pass specification: zone 1 matched, zone MaxZone + 1
\* absent from the zone raster
SceneCensus == UNION {[D -> {1}] : D \in (SUBSET {1, MaxZone + 1}) \ {{}}}

Init ==
    /\ width \in 1..MaxWidth
    /\ height \in 1..MaxHeight
    /\ block_size \in (1..MaxBlock) \X (1..MaxBlock)
    /\ max_workers \in 1..MaxWorkers
    /\ by_block \in BOOLEAN
    /\ kind \in Kinds
    /\ mst = SceneMst(width, height)
    /\ tgt = SceneTgt(width, height)
    /\ msk = SceneMsk(width, height)
    /\ mask_value \in IF kind = "mask" THEN {0, 1} ELSE {1}
    /\ census \in IF kind \in {"norm", "dasy"} THEN SceneCensus ELSE {[z \in {1} |-> 1]}
    /\ Len(PassWindows) <= MaxTasks
    /\ mask_path = MaskPaths[1]
    /\ settings = PlainSettings
    /\ InitRun

Next ==
    \/ Begin
    \/ Submit
    \/ \E k \in 1..Len(workers) : TaskStart(k)
    \/ \E k \in 1..Len(workers) : TaskRun(k)
    \/ \E k \in 1..Len(workers) : TaskCount(k)
    \/ WaitForDone
    \/ Collect
    \/ Finish
    \/ RunWhole

Spec == Init /\ [][Next]_vars

Writers == {"norm", "dasy", "mask"}

Succeeded == {k \in 1..Len(workers) : ~workers[k].raised}

AllPixels == Pixels(width, height)

\* the window of the pass a pixel lies in
WindowOf(p) == CHOOSE k \in 1..Len(windows) : p \in WindowPixels(windows[k])

\* the pass's task applied to the whole raster
WholeResult == TaskBody(WholeWindow(width, height)).result[1]

Restrict(f, S) == [p \in S |-> f[p]]

\* C3: whatever the completion order, the merged statistics table is the one of
\* the pixels of the windows whose task succeeded, and every output pixel holds
\* the value computed for its own position (or stays as it was when its
\* window's task failed): results are keyed by window index.
C3_OrderIndependent ==
    (pc = "done" /\ by_block) =>
        LET S == UNION {WindowPixels(windows[k]) : k \in Succeeded}
        IN  CASE kind = "stat" ->
                    IF Succeeded = {} THEN ret.status = "raised"
                    ELSE /\ ret.status = "returned"
                         /\ ret.value = aggregate_table(
                                get_raster_stats(Restrict(tgt, S), Restrict(mst, S),
                                                 TgtNodata, MstNodata), min_count)
              [] kind \in {"norm", "mask"} ->
                    \A p \in AllPixels :
                        dst[p] = IF p \in S THEN Some(WholeResult[p]) ELSE None
              [] kind = "dasy" ->
                    \A p \in AllPixels :
                        dst[p] = IF p \in S THEN Some(WholeResult[p]) ELSE Some(FNodata)

C3_Witness ==
    /\ pc = "done"
    /\ by_block
    /\ kind = "norm"
    /\ Len(order) = 4
    /\ order[1] > order[2]
    /\ order[3] > order[4]
    /\ Succeeded = 1..4
    /\ \E p, q \in AllPixels : dst[p] # dst[q]

\* C4: nothing is read from a worker, merged or written to the output before
\* every task submitted in the pass has finished: collection starts only after
\* waitForDone returned, and it returns only when all tasks are done.
C4_WaitBeforeCollect ==
    by_block =>
        /\ pc \in {"collect", "finish", "done"} =>
              /\ Len(workers) = Len(windows)
              /\ \A k \in 1..Len(workers) : workers[k].st = "finished"
        /\ pc \in {"start", "submit", "wait"} =>
              /\ collected = {}
              /\ results = <<>>
              /\ \A p \in AllPixels : dst[p] = None /\ writes[p] = 0

C4_Witness ==
    /\ by_block
    /\ pc = "collect"
    /\ i = 2
    /\ collected = {1}
    /\ Len(workers) = 4
    /\ order[1] = 2

\* C5: a task whose body raises keeps result None and stops nothing: every
\* task of the pass is started and run exactly once (no retry), and every task
\* that did not raise has its result collected.
C5_FailureContained ==
    by_block =>
        /\ \A k \in 1..Len(workers) :
              /\ workers[k].runs <= 1
              /\ workers[k].raised => workers[k].result = None
        /\ pc \in {"collect", "finish", "done"} =>
              \A k \in 1..Len(workers) :
                  /\ workers[k].runs = 1
                  /\ ~workers[k].raised => workers[k].result # None
        /\ pc \in {"finish", "done"} => collected = Succeeded

C5_Witness ==
    /\ by_block
    /\ pc = "done"
    /\ Len(workers) = 4
    /\ workers[1].raised
    /\ collected = {2, 3, 4}
    /\ order[1] = 1

\* C6: raster_stat hands a statistics table back to its caller whatever subset
\* of its window tasks raised, the subset of all windows included.
C6_StatAlwaysReturns ==
    (pc = "done" /\ kind = "stat") => ret.status = "returned"

\* C7: after a writer's pass, failed windows included, no pixel of the output
\* is left unwritten: the pixels of a failed window hold nodata.
C7_NoPixelUnwritten ==
    (pc = "done" /\ kind \in Writers) =>
        \A p \in AllPixels :
            /\ dst[p] # None
            /\ workers # <<>> /\ WindowOf(p) \notin Succeeded =>
                   dst[p] = Some(IF kind = "mask" THEN MstNodata ELSE FNodata)

\* C8: in a writer's pass without a failed task, the windows written are
\* pairwise disjoint and cover the raster, and every pixel of the output file
\* is written exactly once.
C8_WrittenExactlyOnce ==
    (pc = "done" /\ kind \in Writers /\ Succeeded = 1..Len(workers)) =>
        /\ \A a, b \in 1..Len(windows) :
              a # b => WindowPixels(windows[a]) \cap WindowPixels(windows[b]) = {}
        /\ UNION {WindowPixels(windows[a]) : a \in 1..Len(windows)} = AllPixels
        /\ \A p \in AllPixels : writes[p] = 1 /\ dst[p] # None

C8_Witness ==
    /\ pc = "done"
    /\ by_block
    /\ kind = "mask"
    /\ Len(windows) = 4
    /\ Succeeded = 1..4
    /\ \A p \in AllPixels : writes[p] = 1

\* ---------------------------------------------------------------- SpecWindows
InitWindows ==
    /\ width \in 1..MaxExtent
    /\ height \in 1..MaxExtent
    /\ block_size \in (1..MaxTile) \X (1..MaxTile)
    /\ max_workers = 1
    /\ by_block = TRUE
    /\ kind = "stat"
    /\ mst = SceneMst(width, height)
    /\ tgt = SceneTgt(width, height)
    /\ msk = SceneMsk(width, height)
    /\ mask_value = 1
    /\ census = [z \in {1} |-> 1]
    /\ mask_path = MaskPaths[1]
    /\ settings = PlainSettings
    /\ InitRun

PlanWindows ==
    /\ pc = "start"
    /\ windows' = get_windows(width, height, block_size)
    /\ pc' = "planned"
    /\ UNCHANGED <<inputs, i, workers, completed_workers, results, total_valid_mappings,
                   output_data, dst, ret, order, collected, writes, derived>>

NextWindows == PlanWindows

SpecWindows == InitWindows /\ [][NextWindows]_vars

\* C1: the windows get_windows returns are pairwise disjoint, lie inside the
\* extent (edge windows clipped, never padded, never empty), and their union
\* is exactly the pixel set of the extent.
C1_WindowsPartition ==
    pc = "planned" =>
        /\ \A a \in 1..Len(windows) :
              /\ windows[a].width >= 1
              /\ windows[a].height >= 1
              /\ WindowPixels(windows[a]) \subseteq Pixels(width, height)
        /\ \A a, b \in 1..Len(windows) :
              a # b => WindowPixels(windows[a]) \cap WindowPixels(windows[b]) = {}
        /\ UNION {WindowPixels(windows[a]) : a \in 1..Len(windows)} = Pixels(width, height)

C1_Witness ==
    /\ pc = "planned"
    /\ Len(windows) = 4
    /\ windows[4].width < block_size[1]
    /\ windows[4].height < block_size[2]

\* ---------------------------------------------------------------- SpecModes
\* the passes run to completion with every window task succeeding, once with
\* by_block enabled and once over the single whole-raster window
RECURSIVE WriteAll(_, _, _, _)
WriteAll(d, arrs, wins, k) ==
    IF k > Len(wins) THEN d
    ELSE WriteAll(Write(d, arrs[k], wins[k]), arrs, wins, k + 1)

RECURSIVE AssignAll(_, _, _, _)
AssignAll(a, arrs, wins, k) ==
    IF k > Len(wins) THEN a
    ELSE AssignAll(Assign(a, arrs[k], wins[k]), arrs, wins, k + 1)

PassOut(st, table, d) == [status |-> st, table |-> table, dst |-> d]

\* raster_stat
StatPass(b) ==
    LET r == raster_stat(mst, tgt, width, height, b, block_size)
    IN  PassOut(r.status, IF r.status = "returned" THEN r.value.rows ELSE <<>>, <<>>)

\* _create_normalized_raster
NormPass(b) ==
    LET mapping == norm_mapping(census, mst, tgt, width, height)
        wins == IF b THEN block_windows(width, height, block_size)
                ELSE <<WholeWindow(width, height)>>
        rs == [k \in 1..Len(wins) |-> NormalizationWorkerResult(mst, mapping, wins[k])]
        total == SumSet(1..Len(wins), [k \in 1..Len(wins) |-> rs[k].valid_mappings])
        d == WriteAll(Full(width, height, None),
                      [k \in 1..Len(wins) |-> rs[k].output], wins, 1)
    IN  PassOut(IF b THEN NormSummary(total, mapping).status ELSE "returned", <<>>, d)

\* _create_dasymetric_raster
DasyPass(b) ==
    LET norm == norm_raster(census, mst, tgt, width, height)
        wins == IF b THEN block_windows(width, height, <<DasyBlock, DasyBlock>>)
                ELSE <<WholeWindow(width, height)>>
        rs == [k \in 1..Len(wins) |-> DasymetricWorkerResult(tgt, norm, wins[k])]
        d == IF b
             THEN LET a == AssignAll(Full(width, height, FNodata), rs, wins, 1)
                  IN  [p \in Pixels(width, height) |-> Some(a[p])]
             ELSE WriteAll(Full(width, height, None), rs, wins, 1)
    IN  PassOut("returned", <<>>, d)

\* the output file of remask_layer with every window task succeeding
remask_layer(m, n, mv, w, h, b, bs) ==
    LET wins == IF b THEN get_windows(w, h, bs) ELSE <<WholeWindow(w, h)>>
        rs == [k \in 1..Len(wins) |-> MaskWorkerResult(m, n, mv, wins[k])]
    IN  WriteAll(Full(w, h, None), rs, wins, 1)

\* remask_layer
MaskPass(b) ==
    PassOut("returned", <<>>,
            remask_layer(mst, msk, mask_value, width, height, b, block_size))

PassAtomic(b) ==
    CASE kind = "stat" -> StatPass(b)
      [] kind = "norm" -> NormPass(b)
      [] kind = "dasy" -> DasyPass(b)
      [] kind = "mask" -> MaskPass(b)

ZoneRasters(w, h) == [Pixels(w, h) -> 0..MaxZone]

TgtRasters(w, h) == [Pixels(w, h) -> {TgtNodata} \cup (1..MaxVal)]

MaskRasters(w, h) == [Pixels(w, h) -> 0..1]

\* census tables that pass _load_census: no negative population, total > 0
CensusTables ==
    {c \in UNION {[D -> 0..MaxPop] : D \in (SUBSET (1..(MaxZone + 1))) \ {{}}} :
        CensusSum(c) > 0}

InitModes ==
    /\ width \in 1..MaxWidth
    /\ height \in 1..MaxHeight
    /\ kind \in Kinds
    /\ block_size \in IF kind = "dasy" THEN {<<1, 1>>} ELSE (1..MaxBlock) \X (1..MaxBlock)
    /\ max_workers = 1
    /\ by_block = TRUE
    /\ mst \in ZoneRasters(width, height)
    /\ tgt \in IF kind \in {"stat", "dasy"}
               THEN TgtRasters(width, height) ELSE {Full(width, height, 1)}
    /\ msk \in IF kind = "mask" THEN MaskRasters(width, height) ELSE {SceneMsk(width, height)}
    /\ mask_value \in IF kind = "mask" THEN {0, 1} ELSE {1}
    /\ census \in IF kind = "norm" THEN CensusTables ELSE {[z \in 1..MaxZone |-> z]}
    /\ kind \in {"norm", "dasy"} => SumProb(mst, tgt, width, height).columns
    /\ mask_path = MaskPaths[1]
    /\ settings = PlainSettings
    /\ InitRun

RunModes ==
    /\ pc = "start"
    /\ modeOut' = [blk |-> PassAtomic(TRUE), seq |-> PassAtomic(FALSE)]
    /\ windows' = PassWindows
    /\ pc' = "ran"
    /\ UNCHANGED <<inputs, i, workers, completed_workers, results, total_valid_mappings,
                   output_data, dst, ret, order, collected, writes, normalized, outfile,
                   mapper, proc, strata, log, predictor, infiles, progress>>

NextModes == RunModes

SpecModes == InitModes /\ [][NextModes]_vars

\* C2: the per-zone count, sum, min, max (and the mean and variance, which fix
\* the sum of squares) raster_stat merges from the windows of any tile size equal
\* the ones it computes from the single whole-raster window, for every zone id.
C2_StatPartitionIndependent ==
    (pc = "ran" /\ kind = "stat") =>
        /\ modeOut.blk.status = "returned"
        /\ modeOut.seq.status = "returned"
        /\ modeOut.blk.table = modeOut.seq.table

C2_Witness ==
    /\ pc = "ran"
    /\ kind = "stat"
    /\ Len(windows) = 4
    /\ Len(modeOut.seq.table) = 2
    /\ \E k \in 1..2 : modeOut.seq.table[k].min < modeOut.seq.table[k].max

\* C9: for the same inputs the by-block run and the whole-raster run of a pass
\* reach the same outcome (returned or raised) and produce the same statistics
\* table, normalization raster, population raster and masked zone raster.
C9_ModesAgree ==
    pc = "ran" =>
        /\ modeOut.blk.status = modeOut.seq.status
        /\ modeOut.blk.table = modeOut.seq.table
        /\ modeOut.blk.dst = modeOut.seq.dst

\* ---------------------------------------------------------------- SpecNorm
\* the raster content _validate_inputs lets through: the prediction has a
\* valid pixel and the mastergrid a valid zone
RastersValid(m, t) ==
    /\ \E p \in DOMAIN t : t[p] # TgtNodata
    /\ \E p \in DOMAIN m : m[p] # MstNodata

NormTgtRasters(w, h) == [Pixels(w, h) -> 0..1]

InitNorm ==
    /\ width \in 1..MaxWidth
    /\ height \in 1..MaxHeight
    /\ kind = "stat"
    /\ block_size = <<1, 1>>
    /\ max_workers = 1
    /\ by_block = TRUE
    /\ mst \in ZoneRasters(width, height)
    /\ tgt \in NormTgtRasters(width, height)
    /\ msk = SceneMsk(width, height)
    /\ mask_value = 1
    /\ census \in CensusTables
    /\ RastersValid(mst, tgt)
    /\ mask_path = MaskPaths[1]
    /\ settings = PlainSettings
    /\ InitRun

\* _calculate_normalization: raster_stat, then the merge and the factors
CalculateNormalization ==
    /\ pc = "start"
    /\ LET sp == raster_stat(mst, tgt, width, height, by_block, block_size)
       IN  /\ results' = sp.value.rows
           /\ normalized' = calculate_normalization(census, sp.value)
    /\ pc' = "normalized"
    /\ UNCHANGED <<inputs, i, windows, workers, completed_workers, total_valid_mappings,
                   output_data, dst, ret, order, collected, writes, modeOut, outfile,
                   mapper, proc, strata, log, predictor, infiles, progress>>

NextNorm == CalculateNormalization

SpecNorm == InitNorm /\ [][NextNorm]_vars

\* census zones that have a row in the statistics table
MatchedZones == {z \in DOMAIN census : \E k \in 1..Len(results) : results[k].id = z}

ZoneSum(z) == results[CHOOSE k \in 1..Len(results) : results[k].id = z].sum

\* C10: when every matched zone has a zonal sum S_z > 0, the recomputed total
\* sum of S_z * F_z equals the sum of the census totals T_z of the matched
\* zones exactly; with every census zone matched it equals the census total.
C10_Conservation ==
    (pc = "normalized" /\ normalized.status = "returned"
        /\ \A z \in MatchedZones : ZoneSum(z) > 0) =>
        /\ normalized.value.total_pop_check =
               Rat(SumSet(MatchedZones, census), 1)
        /\ MatchedZones = DOMAIN census =>
               /\ normalized.value.total_pop_check = Rat(normalized.value.pre_merge_pop, 1)
               /\ ~normalized.value.warning

C10_Witness ==
    /\ pc = "normalized"
    /\ normalized.status = "returned"
    /\ Cardinality(MatchedZones) = 2
    /\ MatchedZones = DOMAIN census
    /\ \A z \in MatchedZones : ZoneSum(z) > 0
    /\ \E k \in 1..Len(normalized.value.merged) :
          /\ normalized.value.merged[k].norm # NaN
          /\ normalized.value.merged[k].norm[1][2] > 1
    /\ normalized.value.total_pop_check = Rat(normalized.value.pre_merge_pop, 1)
\* ---------------------------------------------------------------- SpecFactor
\* _calculate_normalization over predictions that may be zero or negative
FactorTgtRasters(w, h) == [Pixels(w, h) -> {TgtNodata - 1, 0, 1}]

\* census tables with a distinct population per zone
FactorCensusTables == {[z \in D |-> z] : D \in (SUBSET (1..(MaxZone + 1))) \ {{}}}

InitFactor ==
    /\ width \in 1..MaxWidth
    /\ height \in 1..MaxHeight
    /\ kind = "stat"
    /\ block_size = <<1, 1>>
    /\ max_workers = 1
    /\ by_block = TRUE
    /\ mst \in ZoneRasters(width, height)
    /\ tgt \in FactorTgtRasters(width, height)
    /\ msk = SceneMsk(width, height)
    /\ mask_value = 1
    /\ census \in FactorCensusTables
    /\ RastersValid(mst, tgt)
    /\ mask_path = MaskPaths[1]
    /\ settings = PlainSettings
    /\ InitRun

SpecFactor == InitFactor /\ [][NextNorm]_vars

\* ids of the statistics table held in results
ResultIds == {results[k].id : k \in 1..Len(results)}

\* the row of the normalization table for zone z
MergedRow(z) ==
    normalized.value.merged[
        CHOOSE k \in 1..Len(normalized.value.merged) : normalized.value.merged[k].id = z]

MergedIds == {normalized.value.merged[k].id : k \in 1..Len(normalized.value.merged)}

\* C11: every row's factor is population / sum when the zone's sum of
\* prediction is > 0 (missing when the population is missing), and missing
\* when the sum is 0, negative or missing; the zone-to-factor mapping of the
\* raster writer holds exactly the zones with a defined factor.
C11_FactorRule ==
    (pc = "normalized" /\ normalized.status = "returned") =>
        /\ \A z \in MergedIds :
              IF z \in ResultIds /\ ZoneSum(z) > 0
              THEN MergedRow(z).norm =
                       IF z \in DOMAIN census
                       THEN Num(Rat(census[z], ZoneSum(z))) ELSE NaN
              ELSE MergedRow(z).norm = NaN
        /\ DOMAIN NormMapping(normalized.value.merged) =
               {z \in MergedIds : MergedRow(z).norm # NaN}
        /\ \A z \in DOMAIN NormMapping(normalized.value.merged) :
               NormMapping(normalized.value.merged)[z] = MergedRow(z).norm[1]

C11_Witness ==
    /\ pc = "normalized"
    /\ normalized.status = "returned"
    /\ \E y, z \in DOMAIN census \cap ResultIds :
          /\ ZoneSum(y) < 0
          /\ MergedRow(y).norm = NaN
          /\ ZoneSum(z) > 1
          /\ MergedRow(z).norm = Num(Rat(census[z], ZoneSum(z)))
          /\ DOMAIN NormMapping(normalized.value.merged) = {z}
\* ---------------------------------------------------------------- SpecJoin
\* _calculate_normalization over predictions with nodata pixels
InitJoin ==
    /\ width \in 1..MaxWidth
    /\ height \in 1..MaxHeight
    /\ kind = "stat"
    /\ block_size = <<1, 1>>
    /\ max_workers = 1
    /\ by_block = TRUE
    /\ mst \in ZoneRasters(width, height)
    /\ tgt \in TgtRasters(width, height)
    /\ msk = SceneMsk(width, height)
    /\ mask_value = 1
    /\ census \in FactorCensusTables
    /\ RastersValid(mst, tgt)
    /\ mask_path = MaskPaths[1]
    /\ settings = PlainSettings
    /\ InitRun

SpecJoin == InitJoin /\ [][NextNorm]_vars

\* C12: the normalization table is the outer join of census and statistics on
\* the zone id: it is returned without an exception, holds every id of either
\* side, keeps a census zone without statistics with a missing sum and a
\* statistics zone without census row with a missing population.
C12_OuterJoin ==
    pc = "normalized" =>
        /\ normalized.status = "returned"
        /\ MergedIds = DOMAIN census \cup ResultIds
        /\ \A z \in MergedIds :
              /\ MergedRow(z).pop = IF z \in DOMAIN census THEN Num(census[z]) ELSE NaN
              /\ MergedRow(z).sum = IF z \in ResultIds THEN Num(ZoneSum(z)) ELSE NaN
\* ---------------------------------------------------------------- pixel rules (Spec)
\* the pixels of zone z that carry a valid prediction, and their sum
ZonePixels(z) == {p \in AllPixels : mst[p] = z /\ tgt[p] # TgtNodata}

ZoneTotal(z) == SumSet(ZonePixels(z), tgt)

\* zone z has a row in the normalization table with a defined factor
HasFactor(z) ==
    /\ z \in DOMAIN census
    /\ Cardinality(ZonePixels(z)) > min_count
    /\ ZoneTotal(z) > 0

\* the value the normalization raster is to hold at pixel p
FactorAt(p) ==
    IF mst[p] # MstNodata /\ HasFactor(mst[p])
    THEN Rat(census[mst[p]], ZoneTotal(mst[p]))
    ELSE FNodata

\* C13: in every window the normalization writer's output pixel is the factor
\* of the pixel's zone when the zone is not the nodata sentinel and has a valid
\* factor, and the output nodata value otherwise; valid_mappings is the number
\* of pixels that received a factor.
C13_NormPixelRule ==
    kind = "norm" =>
        \A k \in 1..Len(workers) :
            workers[k].result # None =>
                /\ \A p \in WindowPixels(windows[k]) :
                       workers[k].result[1][Rel(p, windows[k])] = FactorAt(p)
                /\ workers[k].valid_mappings =
                       Cardinality({p \in WindowPixels(windows[k]) : FactorAt(p) # FNodata})

C13_Witness ==
    /\ kind = "norm"
    /\ pc = "done"
    /\ by_block
    /\ Len(workers) = 2
    /\ \A k \in 1..2 : workers[k].result # None
    /\ workers[1].valid_mappings = 2
    /\ workers[2].valid_mappings = 0
    /\ \E p, q, r \in AllPixels :
          /\ mst[p] = MstNodata /\ dst[p] = Some(FNodata)
          /\ mst[q] # MstNodata /\ mst[q] \notin DOMAIN census /\ dst[q] = Some(FNodata)
          /\ dst[r] = Some(Rat(1, 4))
\* the factor raster the population writer reads
NormAt(p) == norm_raster(census, mst, tgt, width, height)[p]

\* a rational rounded to the nearest integer, ties to the even one
RoundRat(a) ==
    LET q == (2 * a[1] + a[2]) \div (2 * a[2])
        tie == (2 * a[1] + a[2]) % (2 * a[2]) = 0
    IN  Rat(IF tie /\ q % 2 = 1 THEN q - 1 ELSE q, 1)

\* C14: in every window the population writer's output pixel is
\* round(prediction * factor) when the prediction pixel and the factor pixel
\* are both valid, and nodata when either is its nodata value.
C14_DasyPixelRule ==
    kind = "dasy" =>
        \A k \in 1..Len(workers) :
            workers[k].result # None =>
                \A p \in WindowPixels(windows[k]) :
                    workers[k].result[1][Rel(p, windows[k])] =
                        IF tgt[p] = TgtNodata \/ NormAt(p) = FNodata
                        THEN FNodata
                        ELSE RoundRat(RMul(Rat(tgt[p], 1), NormAt(p)))
\* ---------------------------------------------------------------- SpecRemask
\* ProcessWorker.run's remask steps: the output path is derived from the mask
\* path, then remask_layer runs with the mastergrid, the mask and that path
\* the mask file as the settings accept it: any existing file, on the
\* mastergrid's grid or with another CRS or transform
MaskFaults ==
    {NoFault, [kind |-> "crs", on |-> "Mask"], [kind |-> "transform", on |-> "Mask"]}

InitRemask ==
    /\ width \in 1..MaxWidth
    /\ height \in 1..MaxHeight
    /\ kind = "mask"
    /\ block_size \in {<<1, 1>>, <<MaxBlock, MaxBlock>>}
    /\ max_workers = 1
    /\ by_block \in BOOLEAN
    /\ mst \in ZoneRasters(width, height)
    /\ tgt = Full(width, height, 1)
    /\ msk \in MaskRasters(width, height)
    /\ mask_value \in {0, 1}
    /\ census = [z \in 1..MaxZone |-> z]
    /\ mask_path \in {MaskPaths[k] : k \in 1..Len(MaskPaths)}
    /\ settings \in {[PlainSettings EXCEPT !.fault = f] : f \in MaskFaults}
    /\ settings.fault # NoFault => (mask_path = MaskPaths[1] /\ block_size = <<1, 1>>)
    /\ InitRun

\* what the open mask dataset yields once its file was re-created for
\* writing: undefined, any of the old content, a constant fill, or a read error
ClobberedReads(n, w, h) == {Some(n), Some(Full(w, h, 0)), Some(Full(w, h, 1)), None}

RemaskStep ==
    /\ pc = "start"
    /\ LET out == ReplaceTif(mask_path, IF mask_value = 1 THEN "_remasked" ELSE "_constrained")
           reads == IF out = mask_path
                    THEN ClobberedReads(msk, width, height) ELSE {Some(msk)}
       IN  /\ outfile' = out
           /\ \E n \in reads :
                 IF n = None
                 THEN /\ dst' = Full(width, height, None)
                      /\ ret' = IF by_block THEN Returned(out) ELSE Raised("RasterioIOError")
                 ELSE /\ dst' = remask_layer(mst, n[1], mask_value, width, height,
                                             by_block, block_size)
                      /\ ret' = Returned(out)
    /\ windows' = IF by_block THEN get_windows(width, height, block_size)
                  ELSE <<WholeWindow(width, height)>>
    /\ pc' = "remasked"
    /\ UNCHANGED <<inputs, i, workers, completed_workers, results, total_valid_mappings,
                   output_data, order, collected, writes, modeOut, normalized,
                   mapper, proc, strata, log, predictor, infiles, progress>>

NextRemask == RemaskStep

SpecRemask == InitRemask /\ [][NextRemask]_vars

\* the content of the file at the mask's path
MaskFile == IF outfile = mask_path THEN dst ELSE [p \in AllPixels |-> Some(msk[p])]

\* C15: remask_layer writes, for every pixel, the zone nodata value where the
\* mask pixel equals the exclusion value and the mastergrid value elsewhere,
\* and leaves the mastergrid and mask files as they were.
C15_RemaskRule ==
    pc = "remasked" =>
        /\ \A p \in AllPixels :
               dst[p] = Some(IF msk[p] = mask_value THEN MstNodata ELSE mst[p])
        /\ MaskFile = [p \in AllPixels |-> Some(msk[p])]
\* ---------------------------------------------------------------- DasymetricMapper.map
\* the profile of the prediction raster, and the one of input f under the
\* fault of the settings
PredProfile == [crs |-> "EPSG:4326", width |-> width, height |-> height, transform |-> "T0"]

ProfileOf(f) ==
    IF settings.fault.on # f THEN PredProfile
    ELSE CASE settings.fault.kind = "crs" -> [PredProfile EXCEPT !.crs = "EPSG:3857"]
           [] settings.fault.kind = "dims" -> [PredProfile EXCEPT !.width = @ + 1]
           [] settings.fault.kind = "transform" -> [PredProfile EXCEPT !.transform = "T1"]
           [] OTHER -> PredProfile

Exists(f) == ~(settings.fault.kind = "missing" /\ settings.fault.on = f)

\* _check_compatibility: CRS, then dimensions, then transform
check_compatibility(src_profile, tgt_profile) ==
    IF tgt_profile.crs # src_profile.crs THEN Raised("ValueError")
    ELSE IF tgt_profile.width # src_profile.width \/ tgt_profile.height # src_profile.height
         THEN Raised("ValueError")
    ELSE IF tgt_profile.transform # src_profile.transform THEN Raised("ValueError")
    ELSE Returned(<<>>)

HasValid(raster, nodata) == \E p \in DOMAIN raster : raster[p] # nodata

\* _validate_inputs: files exist; the prediction has valid data; the
\* mastergrid is compatible and has a valid zone; so has the constrain grid
validate_inputs ==
    IF ~Exists("Prediction") \/ ~Exists("Mastergrid")
       \/ (settings.constrain # None /\ ~Exists("Constrain"))
    THEN Raised("FileNotFoundError")
    ELSE IF ~HasValid(tgt, TgtNodata) THEN Raised("ValueError")
    ELSE IF check_compatibility(ProfileOf("Mastergrid"), PredProfile).status = "raised"
         THEN Raised("ValueError")
    ELSE IF ~HasValid(mst, MstNodata) THEN Raised("ValueError")
    ELSE IF settings.constrain = None THEN Returned(<<>>)
    ELSE IF check_compatibility(ProfileOf("Constrain"), PredProfile).status = "raised"
         THEN Raised("ValueError")
    ELSE IF ~HasValid(settings.constrain[1], MstNodata) THEN Raised("ValueError")
    ELSE Returned(<<>>)

\* _load_census that accepts any population values (faulty variant)
load_census_unchecked(cen) ==
    IF ~Exists("Census") THEN Raised("ValueError") ELSE Returned(cen)

\* _load_census: the file is read, no population is negative, the total is > 0
load_census(cen) ==
    IF ~Exists("Census") THEN Raised("ValueError")
    ELSE IF \E z \in DOMAIN cen : cen[z] < 0 THEN Raised("ValueError")
    ELSE IF CensusSum(cen) <= 0 THEN Raised("ValueError")
    ELSE Returned(cen)

\* the output files of the two writers
NormFile(c) == IF c THEN "normalized_census_constrained.tif" ELSE "normalized_census.tif"

PopFile(c) == IF c THEN "population_constrained.tif" ELSE "population_unconstrained.tif"

\* the stages of map, in the order of its body
MapStages ==
    <<"validate_inputs", "load_census", "compute_stats", "normalize",
      "write_normalized", "write_population">>

\* a stage of map as a trace entry: its name and the pass it belongs to
Stage(name, c) == [name |-> name, constrained |-> c]

\* map running the constrained pass whatever the settings say (faulty variant)
NextStage_alwaysConstrained(st, c, has_constrain) ==
    CASE st = "validate_inputs" -> Stage("load_census", FALSE)
      [] st = "load_census" -> Stage("compute_stats", FALSE)
      [] st = "compute_stats" -> Stage("normalize", c)
      [] st = "normalize" -> Stage("write_normalized", c)
      [] st = "write_normalized" -> Stage("write_population", c)
      [] st = "write_population" ->
            IF ~c THEN Stage("compute_stats", TRUE) ELSE Stage("return", c)

\* the statement that follows a stage that returned: the next call of map's
\* body; the constrained pass is entered if settings.constrain is set
NextStage(st, c, has_constrain) ==
    CASE st = "validate_inputs" -> Stage("load_census", FALSE)
      [] st = "load_census" -> Stage("compute_stats", FALSE)
      [] st = "compute_stats" -> Stage("normalize", c)
      [] st = "normalize" -> Stage("write_normalized", c)
      [] st = "write_normalized" -> Stage("write_population", c)
      [] st = "write_population" ->
            IF ~c /\ has_constrain THEN Stage("compute_stats", TRUE) ELSE Stage("return", c)

\* a constrained pass that reads the unconstrained zone raster (faulty variant)
ReferenceGrid_mastergrid(c) == mst

\* reference_grid of _calculate_normalization, mastergrid of the writers
ReferenceGrid(c) == IF c /\ settings.constrain # None THEN settings.constrain[1] ELSE mst

\* what a stage hands back and leaves behind, every window task succeeding:
\* the statistics pass, the merge, and the two writers, which create their
\* file before any block is processed
RunStage(st, c) ==
    LET base == [ret |-> Returned(<<>>), created |-> {},
                 sum_prob |-> mapper.sum_prob, normalized |-> mapper.normalized]
    IN  CASE st = "validate_inputs" -> [base EXCEPT !.ret = validate_inputs]
          [] st = "load_census" -> [base EXCEPT !.ret = load_census(census)]
          [] st = "compute_stats" ->
                LET r == raster_stat(ReferenceGrid(c), tgt, width, height, by_block, block_size)
                IN  [base EXCEPT !.ret = r,
                                 !.sum_prob = IF r.status = "returned" THEN r.value ELSE @]
          [] st = "normalize" ->
                LET r == calculate_normalization(census, mapper.sum_prob)
                IN  [base EXCEPT !.ret = r,
                                 !.normalized = IF r.status = "returned"
                                                THEN r.value.merged ELSE @]
          [] st = "write_normalized" ->
                LET mapping == NormMapping(mapper.normalized)
                    whole == NormalizationWorkerResult(ReferenceGrid(c), mapping,
                                                       WholeWindow(width, height))
                IN  [base EXCEPT !.created = {NormFile(c)},
                                 !.ret = IF by_block
                                         THEN NormSummary(whole.valid_mappings, mapping)
                                         ELSE Returned(NormFile(c))]
          [] st = "write_population" ->
                [base EXCEPT !.created = {PopFile(c)}, !.ret = Returned(PopFile(c))]

\* final_paths
FinalPaths(has_constrain) ==
    {PopFile(FALSE)} \cup (IF has_constrain THEN {PopFile(TRUE)} ELSE {})

\* mapper.map(prediction_path) is entered
MapCall ==
    /\ mapper.pc = "idle"
    /\ mapper' = [mapper EXCEPT !.pc = "validate_inputs"]
    /\ UNCHANGED <<inputs, runstate, modeOut, normalized, outfile, proc,
                   strata, log, predictor, infiles, progress>>

\* one stage of map runs to its end: an exception leaves map, a return
\* value goes on to the next statement
MapStep ==
    /\ mapper.pc \in {MapStages[k] : k \in 1..Len(MapStages)}
    /\ LET c == mapper.constrained
           out == RunStage(mapper.pc, c)
           nxt == NextStage(mapper.pc, c, settings.constrain # None)
           ran == [mapper EXCEPT !.trace = Append(@, Stage(mapper.pc, c)),
                                 !.created = @ \cup out.created,
                                 !.sum_prob = out.sum_prob,
                                 !.normalized = out.normalized]
       IN  mapper' =
              IF out.ret.status = "raised"
              THEN [ran EXCEPT !.pc = "done", !.ret = out.ret]
              ELSE IF nxt.name = "return"
              THEN [ran EXCEPT !.pc = "done",
                               !.ret = Returned(FinalPaths(settings.constrain # None))]
              ELSE [ran EXCEPT !.pc = nxt.name, !.constrained = nxt.constrained]
    /\ UNCHANGED <<inputs, runstate, modeOut, normalized, outfile, proc,
                   strata, log, predictor, infiles, progress>>

\* ---------------------------------------------------------------- SpecMap: map from call to return
\* the constrain grid the remask step of the run produces: the mastergrid
\* with nodata where the constrain raster is 0
ConstrainGrid(m, n, w, h) ==
    LET d == remask_layer(m, n, 0, w, h, TRUE, <<1, 1>>)
    IN  [p \in DOMAIN d |-> d[p][1]]

\* one input file at a time is missing or disagrees with the prediction
Faults ==
    {NoFault}
    \cup {[kind |-> "missing", on |-> f] :
            f \in {"Prediction", "Mastergrid", "Constrain", "Census"}}
    \cup {[kind |-> k, on |-> f] :
            k \in {"crs", "dims", "transform"}, f \in {"Mastergrid", "Constrain"}}

\* census files as read: zones 1 and MaxZone + 1, any sign of population
RawCensusTables ==
    UNION {[D -> {-1, 0, MaxPop}] : D \in (SUBSET {1, MaxZone + 1}) \ {{}}}

MapZoneRasters(w, h) == [Pixels(w, h) -> 0..1]

MapTgtRasters(w, h) == [Pixels(w, h) -> {TgtNodata, 1}]

InitMap ==
    /\ width \in 1..MaxWidth
    /\ height \in 1..MaxHeight
    /\ kind = "stat"
    /\ block_size = <<1, 1>>
    /\ max_workers = 1
    /\ by_block \in BOOLEAN
    /\ msk = SceneMsk(width, height)
    /\ mask_value = 0
    /\ mask_path = MaskPaths[1]
    /\ \E flt \in Faults, con \in BOOLEAN :
          /\ flt.on = "Constrain" => con
          /\ IF flt = NoFault
             THEN /\ mst \in MapZoneRasters(width, height)
                  /\ tgt \in MapTgtRasters(width, height)
                  /\ census \in RawCensusTables
             ELSE /\ mst = Full(width, height, 1)
                  /\ tgt = Full(width, height, 1)
                  /\ census = [z \in {1} |-> MaxPop]
          /\ settings = [constrain |-> IF con
                                       THEN Some(ConstrainGrid(mst, msk, width, height))
                                       ELSE None,
                         agesex_data |-> None,
                         fault |-> flt]
    /\ InitRun

NextMap == MapCall \/ MapStep

SpecMap == InitMap /\ [][NextMap]_vars

\* the stages a complete run of map goes through
ExpectedTrace(has_constrain) ==
    [k \in 1..Len(MapStages) |-> Stage(MapStages[k], FALSE)]
    \o (IF has_constrain
        THEN [k \in 1..4 |-> Stage(MapStages[k + 2], TRUE)]
        ELSE <<>>)

IsPrefix(s, t) == Len(s) <= Len(t) /\ \A k \in 1..Len(s) : s[k] = t[k]

\* C16: map runs validate, load census, statistics, normalization, the
\* normalization writer and the population writer in this order, then the
\* last four again on the constrain grid only if one is configured; a stage
\* that raises is the last one to run, no stage runs twice, and a call that
\* returns has run them all.
C16_StageOrder ==
    LET expected == ExpectedTrace(settings.constrain # None)
    IN  /\ IsPrefix(mapper.trace, expected)
        /\ mapper.ret.status # "none" => mapper.pc = "done"
        /\ mapper.ret.status = "returned" => mapper.trace = expected
        /\ mapper.pc \notin {"idle", "done"} =>
              /\ Len(mapper.trace) < Len(expected)
              /\ Stage(mapper.pc, mapper.constrained) = expected[Len(mapper.trace) + 1]

C16_Witness ==
    /\ mapper.pc = "done"
    /\ mapper.ret.status = "returned"
    /\ settings.constrain # None
    /\ Len(mapper.trace) = Len(MapStages) + 4

\* an input map must reject: a missing or incompatible file, a zone raster
\* without a valid zone, a negative population, a total that is not positive
InvalidInput ==
    \/ settings.fault # NoFault
    \/ ~HasValid(mst, MstNodata)
    \/ (settings.constrain # None /\ ~HasValid(settings.constrain[1], MstNodata))
    \/ \E z \in DOMAIN census : census[z] < 0
    \/ CensusSum(census) <= 0

\* C18: on an invalid input map raises before any statistics pass has
\* started and before any output raster exists: only validation and census
\* loading ever run, no file is created, and the call ends raised.
C18_ValidationFirst ==
    InvalidInput =>
        /\ mapper.created = {}
        /\ \A k \in 1..Len(mapper.trace) :
              mapper.trace[k].name \in {"validate_inputs", "load_census"}
        /\ mapper.pc \notin {"compute_stats", "normalize", "write_normalized",
                              "write_population"}
        /\ mapper.pc = "done" => mapper.ret.status = "raised"

C18_Witness ==
    /\ \E z \in DOMAIN census : census[z] < 0
    /\ settings.fault = NoFault
    /\ mapper.pc = "done"
    /\ mapper.ret = Raised("ValueError")
    /\ Len(mapper.trace) = 2

\* the inputs passed validation and census loading
InputsAccepted ==
    /\ validate_inputs.status = "returned"
    /\ load_census(census).status = "returned"

\* C19: once the inputs are accepted, no data-quality condition (drift,
\* unmatched zones, undefined factors, no zone with a valid factor) aborts
\* map: the call runs every stage and returns the completed output paths.
C19_QualityNeverAborts ==
    (InputsAccepted /\ mapper.pc = "done") =>
        /\ mapper.ret = Returned(FinalPaths(settings.constrain # None))
        /\ mapper.trace = ExpectedTrace(settings.constrain # None)

\* ---------------------------------------------------------------- map_agesex
\* pop_columns: the columns whose name starts with f, F, m or M, in file order
PopColumns == <<"f_0", "m_0">>

ColumnSet == {PopColumns[k] : k \in 1..Len(PopColumns)}

\* census[[id_column]] with norm["one"] = 1
UnitCensus(table) == [z \in {table[k].id : k \in 1..Len(table)} |-> 1]

\* census[pop_column].values: the column in the row order of the file
ColumnValues(table, col) == [k \in 1..Len(table) |-> table[k].pop[col]]

\* normalized["norm"] *= census[pop_column].values: element by element in
\* row position; a one-element array is broadcast over all rows, arrays of
\* any other different length cannot be multiplied
MultiplyNorm(merged, vals) ==
    LET factor(k) == IF Len(vals) = 1 THEN vals[1] ELSE vals[k]
    IN  IF Len(vals) # Len(merged) /\ Len(vals) # 1 THEN Raised("ValueError")
        ELSE Returned([k \in 1..Len(merged) |->
                [merged[k] EXCEPT !.norm = IF @ = NaN THEN NaN
                                           ELSE Num(RMul(@[1], Rat(factor(k), 1)))]])

\* the unit-weight normalization of map_agesex on the grid of pass c
UnitNormalization(c) ==
    LET r == raster_stat(ReferenceGrid(c), tgt, width, height, by_block, block_size)
    IN  IF r.status = "raised" THEN r
        ELSE calculate_normalization(UnitCensus(settings.agesex_data[1]), r.value)

\* pop_columns of _load_agesex for a table as read
pop_columns(table) == SelectSeq(PopColumns, LAMBDA col : col \in DOMAIN table[1].pop)

\* a loop that goes on to the constrained statistics a second time (faulty
\* variant)
AfterColumn_again(more, c, has_constrain) ==
    IF more THEN "agesex_columns"
    ELSE IF has_constrain THEN "agesex_constrained"
    ELSE "done"

\* where map_agesex goes on: to the next column of the loop, after the loop
\* of the unconstrained pass to the constrained statistics if a constrain
\* grid is set, else to its return
AfterColumn(more, c, has_constrain) ==
    IF more THEN "agesex_columns"
    ELSE IF ~c /\ has_constrain THEN "agesex_constrained"
    ELSE "done"

\* mapper at the statement AfterColumn names
GoOn(m, nx) ==
    IF nx = "done" THEN [m EXCEPT !.pc = "done", !.ret = Returned(<<>>)]
    ELSE [m EXCEPT !.pc = nx]

\* map_agesex up to its first loop: validation, loading the table, the
\* unit-weight normalization on the mastergrid
AgesexCall ==
    /\ mapper.pc = "idle"
    /\ settings.agesex_data # None
    /\ LET v == validate_inputs
           n == UnitNormalization(FALSE)
           cols == pop_columns(settings.agesex_data[1])
           tv == <<Stage("validate_inputs", FALSE)>>
           ts == tv \o <<Stage("load_agesex", FALSE), Stage("compute_stats", FALSE)>>
       IN  IF v.status = "raised"
           THEN /\ mapper' = [mapper EXCEPT !.pc = "done", !.ret = v, !.trace = tv]
                /\ UNCHANGED normalized
           ELSE IF n.status = "raised"
           THEN /\ mapper' = [mapper EXCEPT !.pc = "done", !.ret = n, !.trace = ts]
                /\ normalized' = n
           ELSE /\ mapper' = GoOn([mapper EXCEPT !.trace = ts],
                                  AfterColumn(Len(cols) > 0, FALSE,
                                              settings.constrain # None))
                /\ normalized' = n
    /\ UNCHANGED <<inputs, runstate, modeOut, outfile, proc, strata, log, predictor,
                   infiles, progress>>

\* the columns this pass has been through
ColumnsDone(c) == Len(SelectSeq(strata, LAMBDA r : r.constrained = c))

\* one turn of the loop over pop_columns: scale the factors, write the
\* stratum's normalization raster and its population raster
AgesexColumn ==
    /\ mapper.pc = "agesex_columns"
    /\ LET c == mapper.constrained
           cols == pop_columns(settings.agesex_data[1])
           k == ColumnsDone(c) + 1
           col == cols[k]
           m == MultiplyNorm(normalized.value.merged,
                             ColumnValues(settings.agesex_data[1], col))
           mapping == NormMapping(m.value)
           whole == NormalizationWorkerResult(ReferenceGrid(c), mapping,
                                              WholeWindow(width, height))
           summary == IF by_block THEN NormSummary(whole.valid_mappings, mapping)
                      ELSE Returned(<<>>)
           tn == Append(mapper.trace, Stage("write_normalized", c))
           tp == Append(tn, Stage("write_population", c))
       IN  IF m.status = "raised"
           THEN /\ mapper' = [mapper EXCEPT !.pc = "done", !.ret = m]
                /\ UNCHANGED strata
           ELSE /\ strata' = Append(strata, [column |-> col, constrained |-> c,
                                             mapping |-> mapping])
                /\ mapper' =
                      IF summary.status = "raised"
                      THEN [mapper EXCEPT !.pc = "done", !.ret = summary, !.trace = tn]
                      ELSE GoOn([mapper EXCEPT !.trace = tp],
                                AfterColumn(k < Len(cols), c, settings.constrain # None))
    /\ UNCHANGED <<inputs, runstate, modeOut, normalized, outfile, proc, log, predictor,
                   infiles, progress>>

\* if self.settings.constrain: the unit-weight normalization on the constrain grid
AgesexConstrained ==
    /\ mapper.pc = "agesex_constrained"
    /\ LET n == UnitNormalization(TRUE)
           cols == pop_columns(settings.agesex_data[1])
           ts == Append(mapper.trace, Stage("compute_stats", TRUE))
       IN  /\ normalized' = n
           /\ mapper' = IF n.status = "raised"
                        THEN [mapper EXCEPT !.pc = "done", !.ret = n, !.trace = ts]
                        ELSE GoOn([mapper EXCEPT !.constrained = TRUE, !.trace = ts],
                                  AfterColumn(ColumnsDone(TRUE) < Len(cols), TRUE,
                                              settings.constrain # None))
    /\ UNCHANGED <<inputs, runstate, modeOut, outfile, proc, strata, log, predictor,
                   infiles, progress>>

\* age-sex tables as read: rows with distinct zone ids in any order, one
\* population per stratum column, the first n columns of PopColumns
AgesexRows(n) ==
    [id : 1..(MaxZone + 1), pop : [{PopColumns[k] : k \in 1..n} -> 1..MaxPop]]

AgesexTables ==
    UNION {{t \in [1..n -> AgesexRows(nc)] :
                \A a, b \in 1..n : a # b => t[a].id # t[b].id} :
            n \in 1..MaxRows, nc \in 0..Len(PopColumns)}

InitAgesex ==
    /\ width \in 1..MaxWidth
    /\ height \in 1..MaxHeight
    /\ kind = "stat"
    /\ block_size = <<1, 1>>
    /\ max_workers = 1
    /\ by_block \in BOOLEAN
    /\ mst \in ZoneRasters(width, height)
    /\ tgt = Full(width, height, 1)
    /\ msk = SceneMsk(width, height)
    /\ mask_value = 0
    /\ mask_path = MaskPaths[1]
    /\ census = [z \in 1..MaxZone |-> 1]
    /\ \E table \in AgesexTables, con \in BOOLEAN :
          settings = [constrain |-> IF con
                                    THEN Some(ConstrainGrid(mst, msk, width, height))
                                    ELSE None,
                      agesex_data |-> Some(table),
                      fault |-> NoFault]
    /\ InitRun

NextAgesex == AgesexCall \/ AgesexColumn \/ AgesexConstrained

SpecAgesex == InitAgesex /\ [][NextAgesex]_vars

\* the stratum-c population of zone z in the table
StratumPop(col, z) ==
    LET table == settings.agesex_data[1]
    IN  table[CHOOSE k \in 1..Len(table) : table[k].id = z].pop[col]

\* the zones of pass c with a defined unit-weight factor 1 / S_z: zones of
\* the table whose zonal sum on the pass's grid is positive
UnitZones(c) ==
    LET r == raster_stat(ReferenceGrid(c), tgt, width, height, by_block, block_size)
    IN  IF r.status = "raised" \/ ~r.value.columns THEN {}
        ELSE {z \in StatIds(r.value) \cap DOMAIN UnitCensus(settings.agesex_data[1]) :
                 StatSum(r.value, z) > 0}

UnitSum(c, z) ==
    StatSum(raster_stat(ReferenceGrid(c), tgt, width, height, by_block, block_size).value, z)

\* C17: once map_agesex has ended on rasters that pass validation, every
\* stratum column c has, for every zone z with a defined unit-weight factor,
\* the factor (stratum-c population of z) / S_z in its normalization raster,
\* whatever the row order of the table and whichever zones are unmatched.
C17_StratumFactor ==
    (mapper.pc = "done" /\ validate_inputs.status = "returned") =>
        \A c \in {FALSE} \cup (IF settings.constrain # None THEN {TRUE} ELSE {}) :
            \A z \in UnitZones(c) : \A col \in DOMAIN settings.agesex_data[1][1].pop :
                \E k \in 1..Len(strata) :
                    /\ strata[k].column = col
                    /\ strata[k].constrained = c
                    /\ z \in DOMAIN strata[k].mapping
                    /\ strata[k].mapping[z] = Rat(StratumPop(col, z), UnitSum(c, z))

\* how often a stage has run on the grid of pass c
StageCount(name, c) ==
    Cardinality({k \in 1..Len(mapper.trace) : mapper.trace[k] = Stage(name, c)})

\* the passes map_agesex is configured for
Variants == {FALSE} \cup (IF settings.constrain # None THEN {TRUE} ELSE {})

\* C36: map_agesex runs the zonal statistics at most once per grid and never
\* on the constrained grid without a constrain grid; a call that returns has
\* run them exactly once per configured grid and one normalization write and
\* one population write per stratum column and grid, whatever the number of
\* columns; every normalization write comes after the statistics of its grid
\* and is followed at once by the population write, and every stratum's
\* factors are the grid's one factor table times the stratum's column.
C36_StatsOncePerGrid ==
    LET t == mapper.trace
        table == settings.agesex_data[1]
        cols == pop_columns(table)
    IN  /\ \A c \in BOOLEAN : StageCount("compute_stats", c) <= 1
        /\ settings.constrain = None => StageCount("compute_stats", TRUE) = 0
        /\ mapper.ret.status = "returned" =>
              \A c \in Variants :
                  /\ StageCount("compute_stats", c) = 1
                  /\ StageCount("write_normalized", c) = Len(cols)
                  /\ StageCount("write_population", c) = Len(cols)
        /\ \A k \in 1..Len(t) :
              /\ t[k].name = "write_normalized" =>
                    /\ \E j \in 1..(k - 1) : t[j] = Stage("compute_stats", t[k].constrained)
                    /\ k < Len(t) => t[k + 1] = Stage("write_population", t[k].constrained)
              /\ t[k].name = "write_population" =>
                    /\ k > 1
                    /\ t[k - 1] = Stage("write_normalized", t[k].constrained)
        /\ \A k \in 1..Len(strata) :
              LET n == UnitNormalization(strata[k].constrained)
              IN  /\ n.status = "returned"
                  /\ strata[k].mapping =
                        NormMapping(MultiplyNorm(n.value.merged,
                                                 ColumnValues(table, strata[k].column)).value)

\* a call with a constrain grid and two stratum columns that returned: two
\* statistics passes, four strata
C36_Witness ==
    /\ mapper.pc = "done"
    /\ mapper.ret.status = "returned"
    /\ settings.constrain # None
    /\ Len(pop_columns(settings.agesex_data[1])) = 2
    /\ Len(strata) = 4
    /\ StageCount("compute_stats", FALSE) = 1
    /\ StageCount("compute_stats", TRUE) = 1

\* ---------------------------------------------------------------- ProcessWorker.run
\* a stage of run, and whether "if not self._is_running: return" stands
\* between the end of the stage before it and its start
RunStageItem(name, checked) == [name |-> name, checked |-> checked]

\* the stages run() goes through under the settings, in the order of its body
Program ==
    (IF mask_path # None THEN <<RunStageItem("remask", TRUE)>> ELSE <<>>)
    \o (IF settings.constrain # None
        THEN <<RunStageItem("constrain", mask_path = None)>> ELSE <<>>)
    \o <<RunStageItem("extract", TRUE),
         RunStageItem(IF proc.use_existing_model THEN "load_model" ELSE "train", TRUE),
         RunStageItem("predict", TRUE),
         RunStageItem("map", TRUE)>>
    \o (IF settings.agesex_data # None THEN <<RunStageItem("map_agesex", FALSE)>> ELSE <<>>)
    \o <<RunStageItem("verify", TRUE)>>

\* worker.start(): run() is entered and loads the settings
Start ==
    /\ proc.pc = "created"
    /\ proc' = [proc EXCEPT !.pc = "at", !.k = 1]
    /\ UNCHANGED <<inputs, runstate, modeOut, normalized, outfile, mapper,
                   strata, log, predictor, infiles, progress>>

\* _cleanup_temp_dirs: output/temp and output/agesex/additional_files are
\* removed; who called it, and the stage of run() executing at that moment
Cleanup(by, during) == [by |-> by, during |-> during]

\* the stage of run() that is executing
Executing == IF proc.pc = "in" THEN Program[proc.k].name ELSE "none"

\* the boundary before stage k: where the flag is checked and found
\* cleared run() returns, otherwise the stage starts; the first check of
\* run() cleans up before it returns, the check before the feature extraction
\* does not
BeginStage ==
    /\ proc.pc = "at"
    /\ LET it == Program[proc.k]
           seen == [proc EXCEPT !.checks = IF it.checked THEN Append(@, proc.is_running)
                                           ELSE @]
       IN  \E first \in BOOLEAN :
              /\ first => proc.k = 1
              /\ ~first => (proc.k > 1 \/ it.name = "extract")
              /\ proc' =
                    IF it.checked /\ ~proc.is_running
                    THEN [seen EXCEPT !.pc = "returned",
                                      !.cleaned = IF first
                                                  THEN Append(@, Cleanup("run", "none"))
                                                  ELSE @]
                    ELSE [seen EXCEPT !.pc = "in", !.begun = Append(@, it.name)]
    /\ UNCHANGED <<inputs, runstate, modeOut, normalized, outfile, mapper,
                   strata, log, predictor, infiles, progress>>

\* a run that reports success after every stage (faulty variant)
Emitted_early(ok, last) == IF ~ok THEN <<"failed">> ELSE <<"success">>

\* the finished signal at the end of a stage: finished(False) from the
\* except clause, finished(True) after the last stage, nothing otherwise
Emitted(ok, last) ==
    IF ~ok THEN <<"failed">> ELSE IF last THEN <<"success">> ELSE <<>>

\* the stage in flight ends: it returns and run() goes on, or it raises and
\* run() emits finished(False); after the last stage run() emits finished(True)
EndStage ==
    /\ proc.pc = "in"
    /\ \E ok \in BOOLEAN :
          /\ ~ok => Program[proc.k].name # "verify"
          /\ LET last == proc.k = Len(Program)
                 sent == [proc EXCEPT !.emits = @ \o Emitted(ok, last)]
             IN  proc' = IF ~ok
                         THEN [sent EXCEPT !.pc = "returned", !.finished = "failed"]
                         ELSE IF last
                         THEN [sent EXCEPT !.pc = "release", !.finished = "success"]
                         ELSE [sent EXCEPT !.pc = "at", !.k = @ + 1]
    /\ UNCHANGED <<inputs, runstate, modeOut, normalized, outfile, mapper,
                   strata, log, predictor, infiles, progress>>

\* the exit of joblib_resources: a failed release is logged and swallowed
ExitOutcomes == {"returned"}

\* after finished(True): the with block is left and run() cleans up; an
\* exception on the way would reach the except clause
Release ==
    /\ proc.pc = "release"
    /\ \E o \in ExitOutcomes :
          proc' = IF o = "raised"
                  THEN [proc EXCEPT !.pc = "returned", !.emits = Append(@, "failed")]
                  ELSE [proc EXCEPT !.pc = "returned",
                                    !.cleaned = Append(@, Cleanup("run", "none"))]
    /\ UNCHANGED <<inputs, runstate, modeOut, normalized, outfile, mapper,
                   strata, log, predictor, infiles, progress>>

\* ProcessWorker.stop(), called from the dialog's thread while the worker
\* runs: the flag is cleared and _cleanup_temp_dirs is called at once
Stop ==
    /\ proc.pc \in {"at", "in", "release"}
    /\ proc.is_running
    /\ proc' = [proc EXCEPT !.is_running = FALSE,
                            !.cleaned = Append(@, Cleanup("stop", Executing))]
    /\ UNCHANGED <<inputs, runstate, modeOut, normalized, outfile, mapper,
                   strata, log, predictor, infiles, progress>>

InitWorker ==
    /\ width = 1
    /\ height = 1
    /\ kind = "mask"
    /\ block_size = <<1, 1>>
    /\ max_workers = 1
    /\ by_block = TRUE
    /\ mst = Full(width, height, 1)
    /\ tgt = Full(width, height, 1)
    /\ msk = Full(width, height, 0)
    /\ mask_value = 1
    /\ census = [z \in {1} |-> 1]
    /\ mask_path \in {None, MaskPaths[1]}
    /\ \E con, agesex \in BOOLEAN :
          settings = [constrain |-> IF con THEN Some(mst) ELSE None,
                      agesex_data |-> IF agesex
                                      THEN Some(<<[id |-> 1, pop |-> [c \in ColumnSet |-> 1]]>>)
                                      ELSE None,
                      fault |-> NoFault]
    /\ pc = "start"
    /\ i = 0
    /\ windows = <<>>
    /\ workers = <<>>
    /\ completed_workers = 0
    /\ results = <<>>
    /\ total_valid_mappings = 0
    /\ output_data = <<>>
    /\ dst = Full(width, height, None)
    /\ ret = [status |-> "none", value |-> <<>>]
    /\ order = <<>>
    /\ collected = {}
    /\ writes = Full(width, height, 0)
    /\ modeOut = <<>>
    /\ normalized = <<>>
    /\ outfile = <<>>
    /\ mapper = IdleMapper
    /\ strata = <<>>
    /\ log = <<>>
    /\ progress = IdleProgress
    /\ predictor = IdlePredictor
    /\ infiles = <<>>
    /\ proc \in {[IdleProc EXCEPT !.use_existing_model = b] : b \in BOOLEAN}

NextWorker == Start \/ BeginStage \/ EndStage \/ Release \/ Stop

SpecWorker == InitWorker /\ [][NextWorker]_vars

\* C20: once a stop is requested the stage in flight is left to end and no
\* later stage is started: a step taken with the flag cleared starts no stage.
C20_NoStageAfterStop ==
    [][~proc.is_running => proc'.begun = proc.begun]_vars

\* C37: stop never removes the temporary directories while a stage of the
\* run is executing: every removal happens with no stage in flight.
C37_NoCleanupDuringStage ==
    \A k \in 1..Len(proc.cleaned) : proc.cleaned[k].during = "none"

\* the names of the stages run() is configured for
Configured == [k \in 1..Len(Program) |-> Program[k].name]

\* C38: finished is emitted at most once; finished(True) is emitted only when
\* every configured stage has begun and ended without raising and every
\* check of the stop flag, the last one included, found it unset; a run that
\* raised has emitted finished(False), and a run that returned at a check of
\* the flag has emitted nothing.
C38_FinishedOnce ==
    /\ Len(proc.emits) <= 1
    /\ proc.emits = <<"success">> =>
          /\ proc.begun = Configured
          /\ proc.finished = "success"
          /\ proc.pc \in {"release", "returned"}
          /\ proc.checks # <<>>
          /\ \A k \in 1..Len(proc.checks) : proc.checks[k]
    /\ proc.finished = "failed" => proc.emits = <<"failed">>
    /\ (proc.pc = "returned" /\ proc.finished = "none") =>
          /\ proc.emits = <<>>
          /\ proc.checks # <<>>
          /\ ~proc.checks[Len(proc.checks)]

\* a run with mask, constrain grid and age-sex table that went through all
\* its stages, was stopped after the last check and still reported success
C38_Witness ==
    /\ proc.pc = "returned"
    /\ proc.emits = <<"success">>
    /\ ~proc.is_running
    /\ Len(proc.begun) = 8

\* ---------------------------------------------------------------- consumers of task results
Logged(m) == \E k \in 1..Len(log) : log[k] = m

\* the workers of the pass whose result is absent
Absent == {k \in 1..Len(workers) : workers[k].result = None}

\* C21: the consumer of a pass skips a window whose result is absent: it
\* logs a warning for that window and the call does not raise.
C21_AbsentResultSkipped ==
    (pc = "done" /\ Absent # {}) =>
        /\ ret.status # "raised"
        /\ \A k \in Absent : Logged(WarningMessage(k))

\* ---------------------------------------------------------------- progress messages
Completions == {k \in 1..Len(log) : log[k] = CompletedMessage}

\* C22: a by-block pass emits exactly one final 100% message, and only once
\* all its tasks have finished.
C22_OneFinalMessage ==
    /\ Completions # {} => (pc \in {"collect", "finish", "done"} /\ PoolIdle(workers))
    /\ (pc = "done" /\ by_block) => Cardinality(Completions) = 1

\* ---------------------------------------------------------------- task isolation
\* C23: a window task uses no object shared with other tasks apart from the
\* progress counter: it reads through handles it opened itself and keeps
\* everything else in its own fields.
C23_TaskIsolation ==
    \A k \in 1..Len(workers) : \A a \in workers[k].touched : ~a.shared

\* ---------------------------------------------------------------- window order
\* C24: get_windows lists the windows row by row, by increasing column
\* offset within a row, and a tile at least as large as the extent in both
\* dimensions gives the single window (0, 0, width, height).
C24_RowMajor ==
    pc = "planned" =>
        /\ \A a, b \in 1..Len(windows) :
              a < b => \/ windows[a].row_off < windows[b].row_off
                       \/ /\ windows[a].row_off = windows[b].row_off
                          /\ windows[a].col_off < windows[b].col_off
        /\ (block_size[1] >= width /\ block_size[2] >= height) =>
              windows = <<Window(0, 0, width, height)>>

C24_Witness ==
    /\ pc = "planned"
    /\ Len(windows) = 4
    /\ windows[2].row_off = 0
    /\ windows[2].col_off > 0
    /\ windows[3].row_off > 0
    /\ windows[3].col_off = 0

\* ---------------------------------------------------------------- grid agreement
\* C25: an operation that combines rasters stops with a validation error
\* before any window is processed when the rasters differ in CRS, transform,
\* width or height; here remask_layer on a mask that is not on the
\* mastergrid's grid.
C25_MismatchFatal ==
    (pc = "remasked"
     /\ check_compatibility(ProfileOf("Mask"), PredProfile).status = "raised") =>
        /\ ret.status = "raised"
        /\ \A p \in AllPixels : dst[p] = None

\* ---------------------------------------------------------------- SpecScenario
\* a 4x4 grid of four 2x2 quadrants: zones 1 and 2 in the upper half, zone 3
\* and the mastergrid's nodata in the lower half
ScenarioMst ==
    [p \in Pixels(4, 4) |->
        IF p[2] < 2 THEN (IF p[1] < 2 THEN 1 ELSE 2)
        ELSE (IF p[1] < 2 THEN 3 ELSE MstNodata)]

\* the prediction raster of the scenario: 10 on every pixel
ScenarioTgt == Full(4, 4, 10)

\* the census table of the scenario
ScenarioCensus == (1 :> 40) @@ (2 :> 20) @@ (3 :> 10)

\* the passes of DasymetricMapper.map on the scenario, for every tile size and
\* pool size
InitScenario ==
    /\ width = 4
    /\ height = 4
    /\ kind \in {"stat", "norm", "dasy"}
    /\ block_size \in (1..4) \X (1..4)
    /\ max_workers \in 1..MaxWorkers
    /\ by_block = TRUE
    /\ mst = ScenarioMst
    /\ tgt = ScenarioTgt
    /\ msk = SceneMsk(4, 4)
    /\ mask_value = 1
    /\ census = ScenarioCensus
    /\ mask_path = MaskPaths[1]
    /\ settings = PlainSettings
    /\ InitRun

SpecScenario == InitScenario /\ [][NextModes]_vars

\* the pixels of a zone of the scenario
ScenarioZone(z) == {p \in Pixels(4, 4) : ScenarioMst[p] = z}

\* a raster file that holds the value v on every pixel of zone z
HoldsOn(d, z, v) == \A p \in ScenarioZone(z) : d[p] = Some(v)

\* the sum of the valid pixels of a population raster, as a rational
RECURSIVE ValidSum(_, _)
ValidSum(d, D) ==
    IF D = {} THEN Rat(0, 1)
    ELSE LET p == CHOOSE q \in D : TRUE
             rest == ValidSum(d, D \ {p})
         IN  IF d[p] = Some(FNodata) THEN rest ELSE RAdd(d[p][1], rest)

\* C26: on the quadrant scenario the zonal sums are 40 for the zones 1, 2, 3,
\* the factors are 1, 1/2 and 1/4, and the population raster holds 10 on zone
\* 1, 5 on zone 2, the rounded value of 2.5 on zone 3 and nodata on zone 0, so
\* that its valid pixels sum to 70 up to 0.5 per zone-3 pixel; in both modes.
C26_Scenario ==
    pc = "ran" =>
        \A o \in {modeOut.blk, modeOut.seq} :
            /\ o.status = "returned"
            /\ kind = "stat" =>
                  /\ Len(o.table) = 3
                  /\ \A k \in 1..3 : o.table[k].id = k /\ o.table[k].sum = 40
            /\ kind = "norm" =>
                  /\ HoldsOn(o.dst, 1, Rat(1, 1))
                  /\ HoldsOn(o.dst, 2, Rat(1, 2))
                  /\ HoldsOn(o.dst, 3, Rat(1, 4))
                  /\ HoldsOn(o.dst, MstNodata, FNodata)
            /\ kind = "dasy" =>
                  /\ HoldsOn(o.dst, 1, Rat(10, 1))
                  /\ HoldsOn(o.dst, 2, Rat(5, 1))
                  /\ HoldsOn(o.dst, 3, RoundRat(Rat(5, 2)))
                  /\ HoldsOn(o.dst, MstNodata, FNodata)
                  /\ LET diff == RSub(ValidSum(o.dst, Pixels(4, 4)), Rat(70, 1))
                         slack == Rat(Cardinality(ScenarioZone(3)), 2)
                     IN  /\ ~RLess(slack, diff)
                         /\ ~RLess(slack, RSub(Rat(0, 1), diff))

\* ---------------------------------------------------------------- windowed writes
\* the pixels of the output file a step changes
Written == {p \in DOMAIN dst : dst'[p] # dst[p]}

\* C27: every write to an output file is the windowed write of one window
\* result: a step that changes the file changes the pixels of one window of
\* the pass and no others.
C27_WindowedWrites ==
    [][Written # {} =>
          \E k \in 1..Len(windows') : Written = WindowPixels(windows'[k])]_vars

\* ---------------------------------------------------------------- SpecPredict
\* Model.predict: the handles it opens, the prediction pass, the cleanup
MaxCovariates == 2

CovariateHandle(k) == [of |-> "covariate", key |-> k]

MastergridHandle == [of |-> "mastergrid", key |-> 0]

Handles(n) == {CovariateHandle(k) : k \in 1..n} \cup {MastergridHandle}

\* the parameters PredictionWorker.__init__ accepts
PredictionWorkerParams == {"window", "covariates", "selected_features", "model", "scaler"}

\* the arguments predict and _process_windows construct the worker with
PredictionWorkerArgs ==
    {"window", "covariates", "selected_features", "model", "scaler", "log_scale"}

\* PredictionWorker(...): a keyword the constructor does not have is a TypeError
NewPredictionWorker ==
    IF PredictionWorkerArgs \subseteq PredictionWorkerParams
    THEN Returned("worker")
    ELSE Raised("TypeError")

\* the body of the try block of predict: the output file is opened, the
\* workers are constructed and run, the results are written
PredictionPass(p, fail) ==
    IF p.out_fails THEN Raised("RasterioIOError")
    ELSE IF NewPredictionWorker.status = "raised" THEN NewPredictionWorker
    ELSE IF ~by_block /\ fail THEN Raised("RuntimeError")
    ELSE Returned("prediction.tif")

NotTrainedMessage == [level |-> "error", text |-> "Model not trained", idx |-> 0]

CloseWarning(h) == [level |-> "warning", text |-> "Failed to close", idx |-> h.key]

\* entry of predict: an untrained model is a RuntimeError
PredictEnter ==
    /\ predictor.pc = "idle"
    /\ predictor' = IF predictor.trained
                    THEN [predictor EXCEPT !.pc = "init"]
                    ELSE [predictor EXCEPT !.pc = "done",
                                           !.ret = Raised("RuntimeError")]
    /\ log' = IF predictor.trained THEN log ELSE Append(log, NotTrainedMessage)
    /\ UNCHANGED <<inputs, runstate, modeOut, normalized, outfile, mapper, proc, strata,
                   infiles, progress>>

\* _init_prediction: one rasterio.open per covariate, then the mastergrid; an
\* open that raises leaves predict at once
OpenHandle ==
    /\ predictor.pc = "init"
    /\ LET more == Len(predictor.src) < predictor.covariate
           h == IF more THEN CovariateHandle(Len(predictor.src) + 1)
                ELSE MastergridHandle
       IN  predictor' =
               IF h \in predictor.open_fails
               THEN [predictor EXCEPT !.pc = "done", !.ret = Raised("RasterioIOError")]
               ELSE IF more
               THEN [predictor EXCEPT !.src = Append(@, h.key)]
               ELSE [predictor EXCEPT !.mst = TRUE, !.pc = "pass"]
    /\ UNCHANGED <<inputs, runstate, modeOut, normalized, outfile, mapper, proc, strata,
                   log, infiles, progress>>

\* the try block
PredictPass ==
    /\ predictor.pc = "pass"
    /\ \E fail \in BOOLEAN :
          predictor' = [predictor EXCEPT !.pass = PredictionPass(predictor, fail),
                                         !.pc = "cleanup"]
    /\ UNCHANGED <<inputs, runstate, modeOut, normalized, outfile, mapper, proc, strata,
                   log, infiles, progress>>

\* a close that raised, in a cleanup that would let the exception out
SwallowClose_propagate(p, h) ==
    [p EXCEPT !.closed = Append(@, h), !.pc = "done", !.ret = Raised("close")]

\* except Exception in _cleanup_resources: the loop goes on
SwallowClose(p, h) == [p EXCEPT !.closed = Append(@, h)]

\* the finally block, _cleanup_resources: close each covariate handle, then
\* the mastergrid; after the last one predict returns the path or lets the
\* exception of the try block out
CloseHandle ==
    /\ predictor.pc = "cleanup"
    /\ LET more == Len(predictor.closed) < Len(predictor.src)
           h == IF more THEN CovariateHandle(predictor.src[Len(predictor.closed) + 1])
                ELSE MastergridHandle
           after == IF h \in predictor.close_fails
                    THEN SwallowClose(predictor, h)
                    ELSE [predictor EXCEPT !.closed = Append(@, h),
                                           !.released = @ \cup {h}]
       IN  /\ predictor' = IF more \/ after.pc = "done" THEN after
                           ELSE [after EXCEPT !.pc = "done", !.ret = after.pass]
           /\ log' = IF h \in predictor.close_fails
                     THEN Append(log, CloseWarning(h)) ELSE log
    /\ UNCHANGED <<inputs, runstate, modeOut, normalized, outfile, mapper, proc, strata,
                   infiles, progress>>

InitPredict ==
    /\ width = 1
    /\ height = 1
    /\ kind = "stat"
    /\ block_size = <<1, 1>>
    /\ max_workers = 1
    /\ by_block \in BOOLEAN
    /\ mst = Full(width, height, 1)
    /\ tgt = Full(width, height, 1)
    /\ msk = Full(width, height, 0)
    /\ mask_value = 1
    /\ census = [z \in {1} |-> 1]
    /\ mask_path = None
    /\ settings = PlainSettings
    /\ pc = "start"
    /\ i = 0
    /\ windows = <<>>
    /\ workers = <<>>
    /\ completed_workers = 0
    /\ results = <<>>
    /\ total_valid_mappings = 0
    /\ output_data = <<>>
    /\ dst = Full(width, height, None)
    /\ ret = [status |-> "none", value |-> <<>>]
    /\ order = <<>>
    /\ collected = {}
    /\ writes = Full(width, height, 0)
    /\ modeOut = <<>>
    /\ normalized = <<>>
    /\ outfile = <<>>
    /\ mapper = IdleMapper
    /\ proc = IdleProc
    /\ strata = <<>>
    /\ log = <<>>
    /\ progress = IdleProgress
    /\ infiles = <<>>
    /\ \E n \in 1..MaxCovariates :
       \E tr, of \in BOOLEAN :
       \E fo, fc \in SUBSET Handles(n) :
          predictor = [IdlePredictor EXCEPT !.trained = tr, !.covariate = n,
                                            !.open_fails = fo, !.close_fails = fc,
                                            !.out_fails = of]

NextPredict == PredictEnter \/ OpenHandle \/ PredictPass \/ CloseHandle

SpecPredict == InitPredict /\ [][NextPredict]_vars

\* the handles predict has opened
Opened == {CovariateHandle(predictor.src[k]) : k \in 1..Len(predictor.src)}
              \cup (IF predictor.mst THEN {MastergridHandle} ELSE {})

CloseCalled == {predictor.closed[k] : k \in 1..Len(predictor.closed)}

\* C28: once the prediction pass has run, returned or raised, predict ends
\* only after close was called on every covariate handle and on the
\* mastergrid handle; a close that fails is logged as a warning and does not
\* change the outcome of predict, and the handles after it are still closed.
C28_CleanupAlways ==
    (predictor.pc = "done" /\ predictor.pass.status # "none") =>
        /\ CloseCalled = Opened
        /\ Opened = Handles(predictor.covariate)
        /\ \A h \in Opened :
              IF h \in predictor.close_fails
              THEN Logged(CloseWarning(h))
              ELSE h \in predictor.released
        /\ predictor.ret = predictor.pass

C28_Witness ==
    /\ predictor.pc = "done"
    /\ predictor.pass.status = "raised"
    /\ predictor.covariate = 2
    /\ CovariateHandle(1) \in predictor.close_fails
    /\ Logged(CloseWarning(CovariateHandle(1)))
    /\ CovariateHandle(2) \in predictor.released
    /\ MastergridHandle \in predictor.released

\* ---------------------------------------------------------------- SpecStack
\* RasterStackWorker.run's body for one window: one partial table per input
\* raster, in the order of the keys
RasterStackWorkerResult(m, ts, win) ==
    [key \in 1..Len(ts) |->
        get_raster_stats(Read(ts[key], win), Read(m, win), TgtNodata, MstNodata)]

\* a row of the joined table: the zone id and, per key joined so far, the
\* key's columns or missing values
Joined(zid, stats) == [id |-> zid, stats |-> stats]

FrameIds(df) == {df.rows[k].id : k \in 1..Len(df.rows)}

RowOf(df, zid) == df.rows[CHOOSE k \in 1..Len(df.rows) : df.rows[k].id = zid]

\* pd.merge(out, out_df, on="id", how="outer"): the union of the ids, sorted;
\* a frame without an id column is a KeyError
merge(out, out_df, key) ==
    IF ~out.columns THEN Raised("KeyError: 'id'")
    ELSE LET ids == SortedSeq(FrameIds(out) \cup FrameIds(out_df))
             before(z) == IF z \in FrameIds(out_df) THEN RowOf(out_df, z).stats
                          ELSE [j \in 1..(key - 1) |-> NaN]
             row(z) == Joined(z, Append(before(z),
                                        IF z \in FrameIds(out) THEN Num(RowOf(out, z))
                                        ELSE NaN))
         IN  Returned(Frame(TRUE, [k \in 1..Len(ids) |-> row(ids[k])]))

\* the loop over the keys: concat of the key's partial tables, aggregate_table,
\* merge into out_df
RECURSIVE StackJoin(_, _, _, _)
StackJoin(df, key, n, out_df) ==
    IF key > n THEN Returned(out_df)
    ELSE IF df = <<>> THEN Raised("ValueError: No objects to concatenate")
    ELSE LET res == concat([k \in 1..Len(df) |-> df[k][key]])
             out == aggregate_table(res, min_count)
             merged == merge(out, out_df, key)
         IN  IF merged.status = "raised" THEN merged
             ELSE StackJoin(df, key + 1, n, merged.value)

\* raster_stat_stack with every window task succeeding
raster_stat_stack(ts, m, w, h, byblock, bs) ==
    LET wins == IF byblock THEN get_windows(w, h, bs) ELSE <<WholeWindow(w, h)>>
        df == [k \in 1..Len(wins) |-> RasterStackWorkerResult(m, ts, wins[k])]
    IN  StackJoin(df, 1, Len(ts), Frame(TRUE, <<>>))

\* input rasters of the stack: raster k holds its nodata value or k
StackRasters(w, h, k) == [Pixels(w, h) -> {TgtNodata, k}]

InitStack ==
    /\ width \in 1..MaxWidth
    /\ height \in 1..MaxHeight
    /\ kind = "stat"
    /\ block_size \in (1..MaxBlock) \X (1..MaxBlock)
    /\ max_workers = 1
    /\ by_block = TRUE
    /\ mst \in ZoneRasters(width, height)
    /\ tgt = Full(width, height, 1)
    /\ msk = SceneMsk(width, height)
    /\ mask_value = 1
    /\ census = [z \in {1} |-> 1]
    /\ mask_path = None
    /\ settings = PlainSettings
    /\ pc = "start"
    /\ i = 0
    /\ windows = <<>>
    /\ workers = <<>>
    /\ completed_workers = 0
    /\ results = <<>>
    /\ total_valid_mappings = 0
    /\ output_data = <<>>
    /\ dst = Full(width, height, None)
    /\ ret = [status |-> "none", value |-> <<>>]
    /\ order = <<>>
    /\ collected = {}
    /\ writes = Full(width, height, 0)
    /\ modeOut = <<>>
    /\ normalized = <<>>
    /\ outfile = <<>>
    /\ mapper = IdleMapper
    /\ proc = IdleProc
    /\ strata = <<>>
    /\ log = <<>>
    /\ progress = IdleProgress
    /\ predictor = IdlePredictor
    /\ \E a \in StackRasters(width, height, 1), b \in StackRasters(width, height, 2) :
          infiles = <<a, b>>

\* raster_stat_stack, by block and on the whole raster
RunStack ==
    /\ pc = "start"
    /\ modeOut' = [blk |-> raster_stat_stack(infiles, mst, width, height, TRUE, block_size),
                   seq |-> raster_stat_stack(infiles, mst, width, height, FALSE,
                                             block_size)]
    /\ windows' = get_windows(width, height, block_size)
    /\ pc' = "ran"
    /\ UNCHANGED <<inputs, i, workers, completed_workers, results, total_valid_mappings,
                   output_data, dst, ret, order, collected, writes, normalized, outfile,
                   mapper, proc, strata, log, predictor, infiles, progress>>

NextStack == RunStack

SpecStack == InitStack /\ [][NextStack]_vars

\* the rows of the joined table that hold values for a key, as a table
KeyColumns(df, key) ==
    LET has(r) == r.stats[key] # NaN
        rows == SelectSeq(df.rows, has)
    IN  [k \in 1..Len(rows) |-> rows[k].stats[key][1]]

\* the table raster_stat computes for one input raster alone
Alone(key, b) == raster_stat(mst, infiles[key], width, height, b, block_size)

\* C29: raster_stat_stack returns a table that holds, for every input raster,
\* the rows raster_stat computes for that raster alone, and that has a row for
\* every zone of any of these tables, with missing values for the input
\* rasters that have none.
C29_StackEqualsAlone ==
    pc = "ran" =>
        \A b \in BOOLEAN :
            LET o == IF b THEN modeOut.blk ELSE modeOut.seq
            IN  /\ o.status = "returned"
                /\ \A key \in 1..Len(infiles) :
                      KeyColumns(o.value, key) = Alone(key, b).value.rows
                /\ FrameIds(o.value) =
                      UNION {FrameIds(Alone(key, b).value) : key \in 1..Len(infiles)}

\* ---------------------------------------------------------------- count threshold
\* the zones whose valid pixels, counted over the whole raster, exceed min_count
ZonesAboveThreshold ==
    {z \in {mst[p] : p \in AllPixels} \ {MstNodata} :
        Cardinality(ZonePixels(z)) > min_count}

\* C30: the table of the by-block statistics pass has a row for a zone exactly
\* when the zone's valid-pixel count summed over all windows exceeds
\* min_count, whatever the zone's count in each single window.
C30_MergedThreshold ==
    (pc = "ran" /\ kind = "stat") =>
        {modeOut.blk.table[k].id : k \in 1..Len(modeOut.blk.table)} = ZonesAboveThreshold

C30_Witness ==
    /\ pc = "ran"
    /\ kind = "stat"
    /\ block_size = <<1, 1>>
    /\ Len(windows) = 4
    /\ \E k \in 1..Len(modeOut.blk.table) : modeOut.blk.table[k].count = 2
    /\ \E z \in 1..MaxZone : Cardinality(ZonePixels(z)) = 1

\* ---------------------------------------------------------------- SpecConstrained
\* the constrained branch of map, every window task succeeding: the
\* statistics and the factor table of the constrained zone raster, the factor
\* raster written from that grid, the population raster written from the
\* factor raster
ConstrainedPass(b) ==
    LET grid == ReferenceGrid(TRUE)
        sp == raster_stat(grid, tgt, width, height, b, block_size)
        n == IF sp.status = "returned" THEN calculate_normalization(census, sp.value)
             ELSE sp
        mapping == NormMapping(n.value.merged)
        nwins == IF b THEN block_windows(width, height, block_size)
                 ELSE <<WholeWindow(width, height)>>
        nrs == [k \in 1..Len(nwins) |-> NormalizationWorkerResult(grid, mapping, nwins[k])]
        nfile == WriteAll(Full(width, height, None),
                          [k \in 1..Len(nwins) |-> nrs[k].output], nwins, 1)
        total == SumSet(1..Len(nwins), [k \in 1..Len(nwins) |-> nrs[k].valid_mappings])
        norm == [p \in Pixels(width, height) |-> nfile[p][1]]
        pwins == IF b THEN block_windows(width, height, <<DasyBlock, DasyBlock>>)
                 ELSE <<WholeWindow(width, height)>>
        prs == [k \in 1..Len(pwins) |-> DasymetricWorkerResult(tgt, norm, pwins[k])]
        pop == IF b
               THEN LET a == AssignAll(Full(width, height, FNodata), prs, pwins, 1)
                    IN  [p \in Pixels(width, height) |-> Some(a[p])]
               ELSE WriteAll(Full(width, height, None), prs, pwins, 1)
    IN  IF n.status = "raised" THEN PassOut("raised", <<>>, <<>>)
        ELSE IF b /\ NormSummary(total, mapping).status = "raised"
        THEN PassOut("raised", sp.value.rows, <<>>)
        ELSE PassOut("returned", sp.value.rows, pop)

\* inputs that pass _validate_inputs, with a constrain grid: the mastergrid
\* with nodata where the constrain raster is 0
InitConstrained ==
    /\ width \in 1..MaxWidth
    /\ height \in 1..MaxHeight
    /\ kind = "dasy"
    /\ block_size \in (1..MaxBlock) \X (1..MaxBlock)
    /\ max_workers = 1
    /\ by_block = TRUE
    /\ mst \in ZoneRasters(width, height)
    /\ tgt \in MapTgtRasters(width, height)
    /\ msk \in MaskRasters(width, height)
    /\ mask_value = 0
    /\ census = [z \in 1..MaxZone |-> z]
    /\ mask_path = MaskPaths[1]
    /\ settings = [PlainSettings EXCEPT
                      !.constrain = Some(ConstrainGrid(mst, msk, width, height))]
    /\ validate_inputs.status = "returned"
    /\ InitRun

\* if self.settings.constrain: the three calls of the constrained branch
RunConstrained ==
    /\ pc = "start"
    /\ modeOut' = [blk |-> ConstrainedPass(TRUE), seq |-> ConstrainedPass(FALSE)]
    /\ windows' = block_windows(width, height, block_size)
    /\ pc' = "ran"
    /\ UNCHANGED <<inputs, i, workers, completed_workers, results, total_valid_mappings,
                   output_data, dst, ret, order, collected, writes, normalized, outfile,
                   mapper, proc, strata, log, predictor, infiles, progress>>

NextConstrained == RunConstrained

SpecConstrained == InitConstrained /\ [][NextConstrained]_vars

\* the pixels the constraint excludes
Excluded == {p \in AllPixels : msk[p] = 0}

\* the zones of the census that the constrained statistics table holds with a
\* positive sum
ConstrainedMatched(o) ==
    {z \in DOMAIN census : \E k \in 1..Len(o.table) : o.table[k].id = z /\ o.table[k].sum > 0}

InitPartials == InitModes /\ kind = "stat"

\* the windows of the pass and the partial table of each window's task
RunPartials ==
    /\ pc = "start"
    /\ windows' = get_windows(width, height, block_size)
    /\ results' = LET wins == get_windows(width, height, block_size)
                  IN  [k \in 1..Len(wins) |-> RasterWorkerResult(mst, tgt, wins[k])]
    /\ pc' = "ran"
    /\ UNCHANGED <<inputs, i, workers, completed_workers, total_valid_mappings,
                   output_data, dst, ret, order, collected, writes, derived>>

NextPartials == RunPartials

SpecPartials == InitPartials /\ [][NextPartials]_vars

\* the pixels of window k that have zone z and a valid target value
ValidIn(k, z) ==
    {p \in WindowPixels(windows[k]) : mst[p] = z /\ tgt[p] # TgtNodata}

\* C32: the partial table of a window has one row for each zone other than
\* the zone nodata that has a pixel with a valid target value in the window,
\* and no other row; the row's count, sum, sum of squares, min and max are
\* those of exactly these pixels.
C32_PartialRows ==
    pc = "ran" =>
        \A k \in 1..Len(windows) :
            LET rows == results[k]
            IN  /\ {rows[j].id : j \in 1..Len(rows)} =
                       {z \in (0..MaxZone) \ {MstNodata} : ValidIn(k, z) # {}}
                /\ \A a, b \in 1..Len(rows) : rows[a].id = rows[b].id => a = b
                /\ \A j \in 1..Len(rows) :
                      LET sel == ValidIn(k, rows[j].id)
                      IN  /\ rows[j].count = Cardinality(sel)
                          /\ rows[j].sum = SumSet(sel, tgt)
                          /\ rows[j].sum2 = SumSet(sel, [p \in AllPixels |-> tgt[p] * tgt[p]])
                          /\ \A p \in sel : rows[j].min <= tgt[p] /\ tgt[p] <= rows[j].max
                          /\ \E p \in sel : rows[j].min = tgt[p]
                          /\ \E p \in sel : rows[j].max = tgt[p]

C32_Witness ==
    /\ pc = "ran"
    /\ Len(windows) = 2
    /\ Len(results[1]) = 1
    /\ results[1][1].count = 2
    /\ results[1][1].min < results[1][1].max
    /\ results[2] = <<>>
    /\ \E p \in WindowPixels(windows[2]) : mst[p] = MstNodata /\ tgt[p] # TgtNodata
    /\ \E p \in WindowPixels(windows[2]) : mst[p] # MstNodata /\ tgt[p] = TgtNodata

\* ---------------------------------------------------------------- SpecProgress
\* the class attributes of a worker class over the passes of a process: the
\* counter completed_workers, the lock, the progress bar, and the tasks of the
\* pass that is running
MaxPasses == 2

\* ProgressBar.__init__
ProgressBar(total) ==
    [total |-> total, current |-> 0, update_frequency |-> Max2(1, total \div 20),
     last_update |-> 0, logged |-> -1]

\* an update that reports every call (faulty variant)
update_unthrottled(bar, current) ==
    [bar |-> [bar EXCEPT !.current = current, !.last_update = current, !.logged = current],
     emit |-> TRUE]

\* ProgressBar.update(current): the bar afterwards, and whether a message was
\* logged; the percentage current / total differs from the logged one exactly
\* when current differs from the count logged last
update(bar, current) ==
    IF current - bar.last_update >= bar.update_frequency
    THEN [bar |-> [bar EXCEPT !.current = current, !.last_update = current,
                              !.logged = current],
          emit |-> current # bar.logged]
    ELSE [bar |-> [bar EXCEPT !.current = current], emit |-> FALSE]

QueuedTask == [st |-> "queued", local |-> 0]

\* a pass begins: by block, init_progress resets the counter and makes a new
\* bar and the tasks are handed to the pool; otherwise one worker is
\* constructed and run() is called on it, without init_progress
PassBegin ==
    /\ progress.pc \in {"created", "waited"}
    /\ progress.passes < MaxPasses
    /\ \E n \in IF by_block THEN 1..MaxTasks ELSE {1} :
          progress' =
              [progress EXCEPT
                  !.pc = "running",
                  !.passes = @ + 1,
                  !.completed_workers = IF by_block THEN 0 ELSE @,
                  !.bar = IF by_block THEN Some(ProgressBar(n)) ELSE @,
                  !.tasks = [k \in 1..n |-> QueuedTask],
                  !.emitted = <<>>,
                  !.reads = <<>>]
    /\ UNCHANGED <<inputs, runstate, modeOut, normalized, outfile, mapper, proc, strata,
                   log, predictor, infiles>>

\* the tasks a thread of the pool is running
OnThread == {k \in 1..Len(progress.tasks) :
                progress.tasks[k].st \in {"started", "reading", "read_mst",
                                          "ready", "locked", "loaded"}}

\* the try body of run() up to the lock: it returns or raises and is caught
TaskTry(k) ==
    /\ progress.pc = "running"
    /\ progress.tasks[k].st = "queued"
    /\ Cardinality(OnThread) < max_workers
    /\ \E fail \in BOOLEAN :
          progress' = [progress EXCEPT !.tasks[k].st = IF fail THEN "raised" ELSE "ready"]
    /\ UNCHANGED <<inputs, runstate, modeOut, normalized, outfile, mapper, proc, strata,
                   log, predictor, infiles>>

\* an acquire that does not wait for the lock (faulty variant)
LockFree_ignored(holder) == TRUE

\* threading.Lock: acquired only when no task holds it
LockFree(holder) == holder = 0

\* with self.lock:
LockAcquire(k) ==
    /\ progress.tasks[k].st = "ready"
    /\ LockFree(progress.lock)
    /\ progress' = [progress EXCEPT !.lock = k, !.tasks[k].st = "locked"]
    /\ UNCHANGED <<inputs, runstate, modeOut, normalized, outfile, mapper, proc, strata,
                   log, predictor, infiles>>

\* self.__class__.completed_workers += 1, the read of the class attribute
CounterLoad(k) ==
    /\ progress.tasks[k].st = "locked"
    /\ progress' = [progress EXCEPT !.tasks[k].st = "loaded",
                                    !.tasks[k].local = progress.completed_workers]
    /\ UNCHANGED <<inputs, runstate, modeOut, normalized, outfile, mapper, proc, strata,
                   log, predictor, infiles>>

\* the store of the sum, progress_bar.update(completed_workers) if there is a
\* bar, the release of the lock; run() returns
CounterStore(k) ==
    /\ progress.tasks[k].st = "loaded"
    /\ LET c == progress.tasks[k].local + 1
           u == IF progress.bar = None THEN [bar |-> None, emit |-> FALSE]
                ELSE LET r == update(progress.bar[1], c)
                     IN  [bar |-> Some(r.bar), emit |-> r.emit]
       IN  progress' = [progress EXCEPT
                           !.completed_workers = c,
                           !.bar = u.bar,
                           !.emitted = IF u.emit THEN Append(@, c) ELSE @,
                           !.lock = IF @ = k THEN 0 ELSE @,
                           !.tasks[k].st = "finished"]
    /\ UNCHANGED <<inputs, runstate, modeOut, normalized, outfile, mapper, proc, strata,
                   log, predictor, infiles>>

\* executor.waitForDone() returns, or the call of run() has returned
PassWait ==
    /\ progress.pc = "running"
    /\ \A k \in 1..Len(progress.tasks) : progress.tasks[k].st \in {"finished", "raised"}
    /\ progress' = [progress EXCEPT !.pc = "waited"]
    /\ UNCHANGED <<inputs, runstate, modeOut, normalized, outfile, mapper, proc, strata,
                   log, predictor, infiles>>

InitProgress ==
    /\ width = 1
    /\ height = 1
    /\ kind \in {"norm", "dasy"}
    /\ block_size = <<1, 1>>
    /\ max_workers \in 1..MaxWorkers
    /\ by_block \in BOOLEAN
    /\ mst = Full(width, height, 1)
    /\ tgt = Full(width, height, 1)
    /\ msk = Full(width, height, 0)
    /\ mask_value = 1
    /\ census = [z \in {1} |-> 1]
    /\ mask_path = None
    /\ settings = PlainSettings
    /\ InitRun

NextProgress ==
    \/ PassBegin
    \/ \E k \in 1..Len(progress.tasks) : TaskTry(k)
    \/ \E k \in 1..Len(progress.tasks) : LockAcquire(k)
    \/ \E k \in 1..Len(progress.tasks) : CounterLoad(k)
    \/ \E k \in 1..Len(progress.tasks) : CounterStore(k)
    \/ PassWait

SpecProgress == InitProgress /\ [][NextProgress]_vars

\* the tasks of the pass that finished without raising
Counted == {k \in 1..Len(progress.tasks) : progress.tasks[k].st = "finished"}

\* C33: a task is between the load and the store of the counter only while it
\* holds the lock, and when the wait of a pass returns the counter equals the
\* number of tasks of the pass that finished without raising, which is at
\* most the number of its tasks.
C33_CounterExact ==
    /\ \A k \in 1..Len(progress.tasks) :
          progress.tasks[k].st \in {"locked", "loaded"} => progress.lock = k
    /\ progress.pc = "waited" =>
          /\ progress.completed_workers = Cardinality(Counted)
          /\ progress.completed_workers <= Len(progress.tasks)

\* ---------------------------------------------------------------- SpecBar
\* the progress bar of one by-block pass with many tasks; the section under
\* the lock is one step here, as the lock makes it
MaxTotal == 42

\* init_progress(len(windows), logger), the tasks handed to the pool
BarBegin ==
    /\ progress.pc = "created"
    /\ \E n \in 1..MaxTotal :
          progress' = [progress EXCEPT
                          !.pc = "running",
                          !.passes = 1,
                          !.completed_workers = 0,
                          !.bar = Some(ProgressBar(n)),
                          !.tasks = [k \in 1..n |-> QueuedTask]]
    /\ UNCHANGED <<inputs, runstate, modeOut, normalized, outfile, mapper, proc, strata,
                   log, predictor, infiles>>

\* the tasks not yet run
Queued == {k \in 1..Len(progress.tasks) : progress.tasks[k].st = "queued"}

\* run() of a task: its body raises and nothing is counted, or it returns and
\* the counter is incremented and handed to progress_bar.update. The tasks of
\* a pass are alike to the counter, so the ones that raise are taken from the
\* end of the queue and the ones that return from its front.
BarTask ==
    /\ progress.pc = "running"
    /\ Queued # {}
    /\ LET first == CHOOSE q \in Queued : \A o \in Queued : q <= o
           last == CHOOSE q \in Queued : \A o \in Queued : q >= o
           c == progress.completed_workers + 1
           r == update(progress.bar[1], c)
       IN  \E fail \in BOOLEAN :
              progress' =
                  IF fail
                  THEN [progress EXCEPT !.tasks[last].st = "raised"]
                  ELSE [progress EXCEPT
                           !.completed_workers = c,
                           !.bar = Some(r.bar),
                           !.emitted = IF r.emit THEN Append(@, c) ELSE @,
                           !.tasks[first] = [st |-> "finished", local |-> c - 1]]
    /\ UNCHANGED <<inputs, runstate, modeOut, normalized, outfile, mapper, proc, strata,
                   log, predictor, infiles>>

\* executor.waitForDone() returns
BarWait ==
    /\ progress.pc = "running"
    /\ Queued = {}
    /\ progress' = [progress EXCEPT !.pc = "waited"]
    /\ UNCHANGED <<inputs, runstate, modeOut, normalized, outfile, mapper, proc, strata,
                   log, predictor, infiles>>

InitBar ==
    /\ InitProgress
    /\ kind = "norm"
    /\ by_block
    /\ max_workers = 1

NextBar == BarBegin \/ BarTask \/ BarWait

SpecBar == InitBar /\ [][NextBar]_vars

\* the completion count reported by the message before message j, 0 for the first
Before(j) == IF j = 1 THEN 0 ELSE progress.emitted[j - 1]

\* C34: in a pass of N tasks every progress message reports a count at least
\* max(1, N div 20) above the count of the message before it (above 0 for the
\* first), so the reported counts increase strictly, and there are at most
\* N div max(1, N div 20) messages.
C34_Throttled ==
    progress.bar # None =>
        LET N == Len(progress.tasks)
            f == Max2(1, N \div 20)
        IN  /\ \A j \in 1..Len(progress.emitted) :
                  /\ progress.emitted[j] - Before(j) >= f
                  /\ progress.emitted[j] > Before(j)
            /\ Len(progress.emitted) <= N \div f

\* a pass of 41 tasks, all counted: 20 messages, one for every second count
C34_Witness ==
    /\ progress.pc = "waited"
    /\ Len(progress.tasks) = 41
    /\ progress.completed_workers = 41
    /\ progress.emitted = [j \in 1..20 |-> 2 * j]

\* ---------------------------------------------------------------- SpecLive
\* map with the tasks of its passes as steps of their own: a task returns,
\* raises, or never terminates
\* the stages of map that run window tasks
PoolStages == {"compute_stats", "write_normalized", "write_population"}

\* a wait that gives up on running tasks (faulty variant)
TasksDone_timeout(tasks) == TRUE

\* executor.waitForDone(), no timeout given, returns when every task has
\* left the pool; worker.run() in the calling thread returns when run() does
TasksDone(tasks) == \A k \in 1..Len(tasks) : tasks[k].st \in {"finished", "raised"}

\* the tasks that never terminate
Stalled == {k \in 1..Len(progress.tasks) : progress.tasks[k].st = "stalled"}

\* map after a stage of it has ended: an exception leaves map, a return goes
\* on to the next statement. What the stage computes is left out here; the
\* writers have created their file by then
AfterStage(raises) ==
    LET c == mapper.constrained
        nxt == NextStage(mapper.pc, c, settings.constrain # None)
        last == raises \/ nxt.name = "return"
    IN  [mapper EXCEPT
            !.trace = Append(@, Stage(mapper.pc, c)),
            !.created = @ \cup (CASE mapper.pc = "write_normalized" -> {NormFile(c)}
                                  [] mapper.pc = "write_population" -> {PopFile(c)}
                                  [] OTHER -> {}),
            !.pc = IF last THEN "done" ELSE nxt.name,
            !.constrained = IF last THEN @ ELSE nxt.constrained,
            !.ret = IF raises THEN Raised("Exception")
                    ELSE IF last THEN Returned(FinalPaths(settings.constrain # None))
                    ELSE @]

\* validate, load census, merge: no window task; the stage returns or raises
LiveStep ==
    /\ mapper.pc \in {MapStages[k] : k \in 1..Len(MapStages)} \ PoolStages
    /\ \E raises \in BOOLEAN : mapper' = AfterStage(raises)
    /\ UNCHANGED <<inputs, runstate, modeOut, normalized, outfile, proc, strata,
                   log, predictor, infiles, progress>>

\* a stage with window tasks begins: one task per window is handed to the
\* pool, or one worker for the whole raster is run in the calling thread
LiveBegin ==
    /\ mapper.pc \in PoolStages
    /\ progress.pc \in {"created", "waited"}
    /\ LET n == IF by_block THEN Len(get_windows(width, height, block_size)) ELSE 1
       IN  progress' = [progress EXCEPT !.pc = "running",
                                        !.passes = @ + 1,
                                        !.tasks = [k \in 1..n |-> QueuedTask]]
    /\ UNCHANGED <<inputs, runstate, modeOut, normalized, outfile, mapper, proc, strata,
                   log, predictor, infiles>>

\* a thread of the pool takes a task: run() returns, raises and is caught,
\* or never terminates and keeps its thread
LiveTask(k) ==
    /\ progress.pc = "running"
    /\ progress.tasks[k].st = "queued"
    /\ Cardinality(Stalled) < max_workers
    /\ \E end \in {"finished", "raised", "stalled"} :
          progress' = [progress EXCEPT !.tasks[k].st = end]
    /\ UNCHANGED <<inputs, runstate, modeOut, normalized, outfile, mapper, proc, strata,
                   log, predictor, infiles>>

\* the wait of the stage returns and the stage ends: it returns, or raises
\* on what the tasks left
LiveEnd ==
    /\ mapper.pc \in PoolStages
    /\ progress.pc = "running"
    /\ TasksDone(progress.tasks)
    /\ progress' = [progress EXCEPT !.pc = "waited"]
    /\ \E raises \in BOOLEAN : mapper' = AfterStage(raises)
    /\ UNCHANGED <<inputs, runstate, modeOut, normalized, outfile, proc, strata,
                   log, predictor, infiles>>

InitLive ==
    /\ width \in 1..MaxWidth
    /\ height = 1
    /\ kind = "stat"
    /\ block_size = <<1, 1>>
    /\ max_workers \in 1..MaxWorkers
    /\ by_block \in BOOLEAN
    /\ mst = Full(width, height, 1)
    /\ tgt = Full(width, height, 1)
    /\ msk = Full(width, height, 1)
    /\ mask_value = 0
    /\ mask_path = None
    /\ census = [z \in {1} |-> MaxPop]
    /\ \E con \in BOOLEAN :
          settings = [PlainSettings EXCEPT !.constrain = IF con THEN Some(mst) ELSE None]
    /\ InitRun

NextLive ==
    \/ MapCall
    \/ LiveStep
    \/ LiveBegin
    \/ \E k \in 1..Len(progress.tasks) : LiveTask(k)
    \/ LiveEnd

\* the calling thread and the threads of the pool keep running
SpecLive == InitLive /\ [][NextLive]_vars /\ WF_vars(NextLive)

\* C35: if no task of any pass fails to terminate, map eventually ends, with
\* its output paths or with a raised error; and once a task does not
\* terminate, map never ends.
C35_Termination ==
    /\ ([](Stalled = {})) => <>(mapper.pc = "done")
    /\ [](mapper.pc = "done" =>
             \/ mapper.ret = Returned(FinalPaths(settings.constrain # None))
             \/ mapper.ret.status = "raised")
    /\ [](Stalled # {} => [](mapper.pc # "done"))

\* map returned both paths after six passes by block, one with a task that
\* raised
C35_Witness ==
    /\ mapper.pc = "done"
    /\ mapper.ret = Returned(FinalPaths(TRUE))
    /\ by_block
    /\ progress.passes = 6
    /\ \E k \in 1..Len(progress.tasks) : progress.tasks[k].st = "raised"

\* ---------------------------------------------------------------- SpecMask
\* the tasks of a by-block remask pass: all read through the two dataset
\* handles remask_layer opened, under the class's reading_lock
\* a read through a shared handle, as logged: the task and the handle
ReadOf(k, handle) == [task |-> k, handle |-> handle]

\* a thread of the pool takes the task: run() is entered
MaskStart(k) ==
    /\ progress.pc = "running"
    /\ progress.tasks[k].st = "queued"
    /\ Cardinality(OnThread) < max_workers
    /\ progress' = [progress EXCEPT !.tasks[k].st = "started"]
    /\ UNCHANGED <<inputs, runstate, modeOut, normalized, outfile, mapper, proc, strata,
                   log, predictor, infiles>>

\* with self.reading_lock:
ReadAcquire(k) ==
    /\ progress.tasks[k].st = "started"
    /\ LockFree(progress.reading_lock)
    /\ progress' = [progress EXCEPT !.reading_lock = k, !.tasks[k].st = "reading"]
    /\ UNCHANGED <<inputs, runstate, modeOut, normalized, outfile, mapper, proc, strata,
                   log, predictor, infiles>>

\* m = self.mst.read(window=self.window); a read that raises leaves the with
\* block, which releases the lock, and is caught
ReadMst(k) ==
    /\ progress.tasks[k].st = "reading"
    /\ \E fail \in BOOLEAN :
          progress' =
              IF fail
              THEN [progress EXCEPT !.tasks[k].st = "raised",
                                    !.reading_lock = IF @ = k THEN 0 ELSE @]
              ELSE [progress EXCEPT !.tasks[k].st = "read_mst",
                                    !.reads = Append(@, ReadOf(k, "mst"))]
    /\ UNCHANGED <<inputs, runstate, modeOut, normalized, outfile, mapper, proc, strata,
                   log, predictor, infiles>>

\* n = self.msk.read(window=self.window), the end of the with block; the
\* masking and self.result = m follow in the task's own data
ReadMsk(k) ==
    /\ progress.tasks[k].st = "read_mst"
    /\ \E fail \in BOOLEAN :
          progress' =
              IF fail
              THEN [progress EXCEPT !.tasks[k].st = "raised",
                                    !.reading_lock = IF @ = k THEN 0 ELSE @]
              ELSE [progress EXCEPT !.tasks[k].st = "ready",
                                    !.reads = Append(@, ReadOf(k, "msk")),
                                    !.reading_lock = IF @ = k THEN 0 ELSE @]
    /\ UNCHANGED <<inputs, runstate, modeOut, normalized, outfile, mapper, proc, strata,
                   log, predictor, infiles>>

InitMask ==
    /\ width = 1
    /\ height = 1
    /\ kind = "mask"
    /\ block_size = <<1, 1>>
    /\ max_workers \in 1..MaxWorkers
    /\ by_block = TRUE
    /\ mst = Full(width, height, 1)
    /\ tgt = Full(width, height, 1)
    /\ msk = Full(width, height, 0)
    /\ mask_value = 1
    /\ census = [z \in {1} |-> 1]
    /\ mask_path = None
    /\ settings = PlainSettings
    /\ InitRun

NextMask ==
    \/ PassBegin
    \/ \E k \in 1..Len(progress.tasks) : MaskStart(k)
    \/ \E k \in 1..Len(progress.tasks) : ReadAcquire(k)
    \/ \E k \in 1..Len(progress.tasks) : ReadMst(k)
    \/ \E k \in 1..Len(progress.tasks) : ReadMsk(k)
    \/ \E k \in 1..Len(progress.tasks) : LockAcquire(k)
    \/ \E k \in 1..Len(progress.tasks) : CounterLoad(k)
    \/ \E k \in 1..Len(progress.tasks) : CounterStore(k)
    \/ PassWait

SpecMask == InitMask /\ [][NextMask]_vars

\* the tasks inside the with block of reading_lock
Reading == {k \in 1..Len(progress.tasks) : progress.tasks[k].st \in {"reading", "read_mst"}}

\* C39: at most one task of a by-block remask pass is reading through the
\* shared handles at a time, and it holds reading_lock; in the order of the
\* reads, a task's read of the mask follows its own read of the mastergrid
\* with no read of another task between them.
C39_ReadsSerialised ==
    LET r == progress.reads
    IN  /\ Cardinality(Reading) <= 1
        /\ \A k \in Reading : progress.reading_lock = k
        /\ \A j \in 1..Len(r) :
              /\ r[j].handle = "msk" => (j > 1 /\ r[j - 1] = ReadOf(r[j].task, "mst"))
              /\ (r[j].handle = "mst" /\ j < Len(r)) =>
                    \/ r[j + 1] = ReadOf(r[j].task, "msk")
                    \/ progress.tasks[r[j].task].st = "raised"

\* two pool threads: one task is between its two reads while another, already
\* running, waits for reading_lock, after a third has read both
C39_Witness ==
    \E a, b, c \in 1..Len(progress.tasks) :
        /\ progress.tasks[a].st = "read_mst"
        /\ progress.tasks[b].st = "started"
        /\ progress.reads = <<ReadOf(c, "mst"), ReadOf(c, "msk"), ReadOf(a, "mst")>>
====
